---------------------------- MODULE Spec2Model ----------------------------
(***************************************************************************)
(* A model of the fact-promotion and entity-linking core of the combo      *)
(* pipeline: the identity registry (combo/link/registry.py), the           *)
(* cross-document linker (combo/link/linker.py) and the promotion engine   *)
(* (combo/pipeline/promote.py, combo/pipeline/_promote_utils.py).          *)
(*                                                                         *)
(* Strings are TLA+ strings, read character by character, so that case     *)
(* folding, trimming, string comparison and JSON serialization are         *)
(* computed, not assumed.  JSON values are tagged records: a dict is a     *)
(* function from keys to values, so that an absent key, a null and a       *)
(* falsy value stay distinct as they are in Python.  A Python set is a     *)
(* TLA+ set whose iteration order is chosen by the process's hash seed.    *)
(***************************************************************************)
EXTENDS Integers, Sequences, FiniteSets, TLC

VARIABLES
    \* ---- promotion engine: the three input files, the run's options, the outputs
    ent_mentions,     \* mentions.entities.jsonl: sequence of entity mentions
    rel_mentions,     \* mentions.relations.jsonl: sequence of relation mentions
    linked,           \* linked.entities.jsonl as read by promote(): sequence of rows
    min_ev,           \* the min_evidence threshold of the run
    out,              \* the four output files and the run report of the last run
    runs,             \* number of promote() runs made so far (capped)
    \* ---- identity registry: the SQLite tables and the last call
    entities,         \* set of rows [canonical_id, type, normalized_label, primary_name]
    aliases,          \* set of rows [canonical_id, alias]
    external_ids,     \* set of rows [canonical_id, source, external_id]
    last_call,        \* the last registry call: operation, arguments, return value
    id_log,           \* the (type, label, returned id) of every get_or_create_canonical call
    calls,            \* number of registry calls made so far (capped)
    \* ---- linker: the input directory, the output file, the run report
    in_dir,           \* function: file base name -> sequence of entity mentions
    linked_out,       \* linked.entities.jsonl: the list of its rows, or None (no file)
    link_report,      \* run_report.json of the last link run, or None
    link_log,         \* the completed link runs: enumeration order and file written
    link_crashes,     \* the enumeration orders of the link runs that were interrupted
    \* ---- coreference resolver
    coref_in,         \* the entity mentions of one document, in file order
    coref_out,        \* the list the last call returned, or None
    coref_call,       \* the last call: operation, max_sent_back, max_mentions_back
    \* ---- two processes that call get_or_create_canonical on one registry file
    proc,             \* per process: position in the call, arguments, return value
    wlock,            \* the process that holds the database's write lock, or 0
    uncommitted,      \* the rows the open write transaction has inserted
    \* ---- the output files of the stages, while they are written
    disk,             \* function: output path -> the rows in the file, or None (no file)
    writer,           \* the _write_jsonl call in progress: path, rows, content before
    crash,            \* the last write a crash interrupted: path, rows, content before
    writes,           \* number of _write_jsonl calls started so far (capped)
    \* ---- the command-line entry points of promote and link
    cli_fs,           \* the files and directories the commands are pointed at
    cli_last          \* the last invocation: command, arguments, exit code, or None

promote_vars  == <<ent_mentions, rel_mentions, linked, min_ev, out, runs>>
registry_vars == <<entities, aliases, external_ids, last_call, id_log, calls>>
link_vars     == <<in_dir, linked_out, link_report, link_log, link_crashes>>
coref_vars    == <<coref_in, coref_out, coref_call>>
\* the variables of the components added to the first three
race_vars     == <<proc, wlock, uncommitted>>
write_vars    == <<disk, writer, crash, writes>>
cli_vars      == <<cli_fs, cli_last>>
other_vars    == <<coref_vars, race_vars, write_vars, cli_vars>>
vars == <<promote_vars, registry_vars, link_vars, other_vars>>

(***************************************************************************)
(* Strings.                                                                *)
(***************************************************************************)
\* The characters of the model's alphabet in code-point order: U+0020..U+005F
\* and U+0061..U+007E
AsciiTo5F   == " !\"#$%&'()*+,-./0123456789:;<=>?@ABCDEFGHIJKLMNOPQRSTUVWXYZ[\\]^_"
AsciiFrom61 == "abcdefghijklmnopqrstuvwxyz{|}~"
\* s[i:i+1], the i-th character of s
At(s, i) == SubSeq(s, i, i)
\* the function from the characters of s to their code points, the first being n
RECURSIVE CodePoints(_, _)
CodePoints(s, n) ==
    IF s = "" THEN <<>> ELSE (At(s, 1) :> n) @@ CodePoints(Tail(s), n + 1)
OrdTable == CodePoints(AsciiTo5F, 32) @@ CodePoints(AsciiFrom61, 97)
\* ord(c) and chr(n)
Ord(c) == OrdTable[c]
Chr(n) == IF n >= 97 THEN At(AsciiFrom61, n - 96) ELSE At(AsciiTo5F, n - 31)

Min2(a, b) == IF a <= b THEN a ELSE b

\* str.upper() / str.lower(), character by character
UpperChar(c) == IF Ord(c) >= 97 /\ Ord(c) <= 122 THEN Chr(Ord(c) - 32) ELSE c
LowerChar(c) == IF Ord(c) >= 65 /\ Ord(c) <= 90 THEN Chr(Ord(c) + 32) ELSE c
RECURSIVE Upper(_)
Upper(s) == IF s = "" THEN "" ELSE UpperChar(At(s, 1)) \o Upper(Tail(s))
RECURSIVE Lower(_)
Lower(s) == IF s = "" THEN "" ELSE LowerChar(At(s, 1)) \o Lower(Tail(s))

\* str.strip(): drops leading and trailing whitespace
IsSpace(c) == c \in {" ", "\t", "\n", "\r", "\f"}
Strip(s) ==
    LET keep == {i \in 1..Len(s) : ~IsSpace(At(s, i))}
    IN  IF keep = {} THEN ""
        ELSE LET lo == CHOOSE i \in keep : \A j \in keep : i <= j
                 hi == CHOOSE i \in keep : \A j \in keep : j <= i
             IN  SubSeq(s, lo, hi)

\* Python's str < str: lexicographic on code points; the strings are compared at
\* the first index at which they differ
StrLess(a, b) ==
    IF \E i \in 1..Min2(Len(a), Len(b)) : At(a, i) # At(b, i)
    THEN LET first == CHOOSE i \in 1..Min2(Len(a), Len(b)) :
                         At(a, i) # At(b, i) /\ SubSeq(a, 1, i - 1) = SubSeq(b, 1, i - 1)
         IN  Ord(At(a, first)) < Ord(At(b, first))
    ELSE Len(a) < Len(b)

\* Python's tuple < tuple for tuples of strings of one length
RECURSIVE KeyLessFrom(_, _, _)
KeyLessFrom(k1, k2, i) ==
    IF i > Len(k1) THEN FALSE
    ELSE IF k1[i] # k2[i] THEN StrLess(k1[i], k2[i])
    ELSE KeyLessFrom(k1, k2, i + 1)
KeyLess(k1, k2) == KeyLessFrom(k1, k2, 1)

\* sorted(xs, key=...): stable; pairs is the sequence of <<key, x>>, the result
\* the sequence of x by ascending key
RECURSIVE InsertByKey(_, _)
InsertByKey(p, sorted) ==
    IF sorted = <<>> THEN <<p>>
    ELSE IF KeyLess(p[1], sorted[Len(sorted)][1])
         THEN Append(InsertByKey(p, SubSeq(sorted, 1, Len(sorted) - 1)), sorted[Len(sorted)])
         ELSE Append(sorted, p)
RECURSIVE SortPairs(_)
SortPairs(pairs) ==
    IF pairs = <<>> THEN <<>>
    ELSE InsertByKey(pairs[Len(pairs)], SortPairs(SubSeq(pairs, 1, Len(pairs) - 1)))
SortedByKey(pairs) == LET s == SortPairs(pairs) IN [i \in 1..Len(s) |-> s[i][2]]

\* sorted(xs) for a sequence of strings
SortedStrs(xs) == SortedByKey([i \in 1..Len(xs) |-> <<(<<xs[i]>>), xs[i]>>])

(***************************************************************************)
(* JSON values and json.dumps(obj, ensure_ascii=False, sort_keys=True).    *)
(***************************************************************************)
None   == [t |-> "null"]
JS(s)  == [t |-> "str", v |-> s]
JI(n)  == [t |-> "int", v |-> n]
JF(u)  == [t |-> "float", v |-> u]         \* u in units of 1/6000 (exact means of up to 6 values)
JL(xs) == [t |-> "list", v |-> xs]
JD(f)  == [t |-> "dict", v |-> f]          \* f a function from keys (strings) to values
JB(b)  == [t |-> "bool", v |-> b]
\* a dict literal {k1: v1, ...}, given as the sequence of <<"k", v>> (the keys differ)
RECURSIVE Items(_)
Items(ps) == IF ps = <<>> THEN <<>> ELSE (ps[1][1] :> ps[1][2]) @@ Items(Tail(ps))
D(ps)  == JD(Items(ps))

\* d.get(k): None when the key is absent
Get(d, k) == IF k \in DOMAIN d.v THEN d.v[k] ELSE None
\* k in d
Has(d, k) == k \in DOMAIN d.v
\* Python truthiness: bool(x)
Truthy(j) ==
    CASE j.t = "null"  -> FALSE
      [] j.t = "str"   -> j.v # ""
      [] j.t = "int"   -> j.v # 0
      [] j.t = "float" -> j.v # 0
      [] j.t = "list"  -> j.v # <<>>
      [] j.t = "dict"  -> DOMAIN j.v # {}
      [] j.t = "bool"  -> j.v
\* x or y
Or(x, y) == IF Truthy(x) THEN x ELSE y

\* the elements of a set of strings in ascending order
RECURSIVE SeqOf(_)
SeqOf(S) ==
    IF S = {} THEN <<>> ELSE LET x == CHOOSE x \in S : TRUE IN <<x>> \o SeqOf(S \ {x})
AscSeq(S) == SortedStrs(SeqOf(S))

\* str(n) of an integer
Digit(n) == At("0123456789", n + 1)
RECURSIVE IntStr(_)
IntStr(n) ==
    IF n < 0 THEN "-" \o IntStr(-n)
    ELSE IF n < 10 THEN Digit(n)
    ELSE IntStr(n \div 10) \o Digit(n % 10)

\* repr(float) of u/6000 for 0 <= u: the integer part, ".", and the fraction's
\* decimal digits (cut after four), without trailing zeros
RECURSIVE FracDigits(_, _)
FracDigits(r, n) ==
    IF n = 0 \/ r = 0 THEN ""
    ELSE Digit((r * 10) \div 6000) \o FracDigits((r * 10) % 6000, n - 1)
FloatStr(u) ==
    LET f == FracDigits(u % 6000, 4)
    IN  IntStr(u \div 6000) \o "." \o (IF f = "" THEN "0" ELSE f)

RECURSIVE Join(_, _)
Join(parts, sep) ==
    IF parts = <<>> THEN ""
    ELSE IF Len(parts) = 1 THEN parts[1]
    ELSE parts[1] \o sep \o Join(Tail(parts), sep)

RECURSIVE Dumps(_)
Dumps(j) ==
    CASE j.t = "null"  -> "null"
      [] j.t = "str"   -> "\"" \o j.v \o "\""
      [] j.t = "int"   -> IntStr(j.v)
      [] j.t = "float" -> FloatStr(j.v)
      [] j.t = "list"  -> "[" \o Join([i \in 1..Len(j.v) |-> Dumps(j.v[i])], ", ") \o "]"
      [] j.t = "dict"  ->
            LET ks == AscSeq(DOMAIN j.v)
            IN  "{" \o Join([i \in 1..Len(ks) |->
                                   "\"" \o ks[i] \o "\": " \o Dumps(j.v[ks[i]])],
                                ", ") \o "}"

\* str(x) of a JSON scalar
PyStr(j) ==
    CASE j.t = "null"  -> "None"
      [] j.t = "str"   -> j.v
      [] j.t = "int"   -> IntStr(j.v)
      [] j.t = "float" -> FloatStr(j.v)

(***************************************************************************)
(* Python containers.                                                      *)
(***************************************************************************)
\* d.get(k, default): the default only when the key is absent
GetD(d, k, default) == IF k \in DOMAIN d.v THEN d.v[k] ELSE default

Cond(b, x) == IF b THEN <<x>> ELSE <<>>

RECURSIVE Concat(_)
Concat(seqs) == IF seqs = <<>> THEN <<>> ELSE seqs[1] \o Concat(Tail(seqs))

RECURSIVE Sum(_)
Sum(xs) == IF xs = <<>> THEN 0 ELSE xs[1] + Sum(Tail(xs))

Range(xs) == {xs[i] : i \in 1..Len(xs)}

\* The number of hash seeds modelled.  Iterating a set of strings visits its
\* elements in an order fixed by the process's hash seed h: the ascending order
\* rotated by h \div 2 places, reversed when h is odd.
HashSeeds == 2
Rotate(xs, n) ==
    IF xs = <<>> THEN xs
    ELSE LET k == n % Len(xs) IN SubSeq(xs, k + 1, Len(xs)) \o SubSeq(xs, 1, k)
Reverse(xs) == [i \in 1..Len(xs) |-> xs[Len(xs) + 1 - i]]
PySetIter(S, h) ==
    LET r == Rotate(AscSeq(S), h \div 2) IN IF h % 2 = 1 THEN Reverse(r) ELSE r

\* sorted(S) for a set S of strings, iterated under hash seed h
SortedSet(S, h) == SortedStrs(PySetIter(S, h))

\* s.endswith(suffix)
EndsWith(s, suffix) ==
    Len(s) >= Len(suffix) /\ SubSeq(s, Len(s) - Len(suffix) + 1, Len(s)) = suffix

(***************************************************************************)
(* combo/pipeline/_promote_utils.py                                        *)
(***************************************************************************)
StrsOf(xs) == {PyStr(xs[i]) : i \in 1..Len(xs)}

\* a variant of labels_satisfy that asks for every role label to be allowed
labels_contained(role_labels, allowed_labels) ==
    IF allowed_labels = <<>> THEN FALSE
    ELSE IF Len(allowed_labels) = 1 /\ allowed_labels[1] = JS("*") THEN TRUE
    ELSE StrsOf(role_labels) \subseteq StrsOf(allowed_labels)

labels_satisfy(role_labels, allowed_labels) ==
    IF allowed_labels = <<>> THEN FALSE
    ELSE IF Len(allowed_labels) = 1 /\ allowed_labels[1] = JS("*") THEN TRUE
    ELSE StrsOf(role_labels) \cap StrsOf(allowed_labels) # {}

\* etype is a key of schema_entities
KnownType(etype, schema_entities) ==
    Truthy(etype) /\ etype.t = "str" /\ etype.v \in DOMAIN schema_entities.v

entity_keys_present(canon, schema_entities) ==
    LET etype == Get(canon, "type") IN
    IF ~KnownType(etype, schema_entities) THEN FALSE
    ELSE LET req        == GetD(schema_entities.v[etype.v], "required", JL(<<>>)).v
             key_fields == GetD(schema_entities.v[etype.v], "key", JL(<<>>)).v
             key        == Or(Get(canon, "key"), JD(<<>>))
             props      == Or(Get(canon, "props"), JD(<<>>))
         IN  /\ \A i \in 1..Len(req) :
                    req[i].v \in DOMAIN key.v \/ req[i].v \in DOMAIN props.v
             /\ \A i \in 1..Len(key_fields) : key_fields[i].v \in DOMAIN key.v

type_constraints_ok(canon, schema_entities) ==
    LET etype == Get(canon, "type") IN
    IF ~KnownType(etype, schema_entities) THEN FALSE
    ELSE LET cons == Or(Get(schema_entities.v[etype.v], "constraints"), JD(<<>>)) IN
         IF Has(cons, "value_range")
         THEN LET vr == Get(cons, "value_range").v
                  v  == Get(Or(Get(canon, "key"), JD(<<>>)), "value")
              IN  \* float(v) raises for a non-numeric string: caught, False
                  IF v.t # "int" THEN FALSE
                  ELSE vr[1].v <= v.v /\ v.v <= vr[2].v
         ELSE TRUE

missing_merge_keys(canon, schema_entities) ==
    LET etype == Get(canon, "type") IN
    IF ~KnownType(etype, schema_entities) THEN <<>>
    ELSE LET key_fields == GetD(schema_entities.v[etype.v], "key", JL(<<>>)).v
             key        == Or(Get(canon, "key"), JD(<<>>))
         IN  Concat([i \in 1..Len(key_fields) |->
                Cond(\/ key_fields[i].v \notin DOMAIN key.v
                     \/ key.v[key_fields[i].v] \in {None, JS("")},
                     PyStr(key_fields[i]))])

domain_range_ok(subj_labels, obj_labels, predicate_rule) ==
    LET dom == Or(Get(predicate_rule, "domain"), JL(<<JS("*")>>)).v
        ran == Or(Get(predicate_rule, "range"), JL(<<JS("*")>>)).v
    IN  labels_satisfy(subj_labels, dom) /\ labels_satisfy(obj_labels, ran)

predicate_specific_ok(predicate, subj, obj, rel_props, schema_entities) ==
    IF /\ predicate \in {JS("STARTS_AT_TRL"), JS("ENDS_AT_TRL"), JS("AT_TRL")}
       /\ \/ EndsWith(Or(Get(obj, "type"), JS("")).v, "TRL")
          \/ JS("TRL") \in Range(Or(Get(obj, "labels"), JL(<<>>)).v)
    THEN type_constraints_ok(obj, schema_entities)
    ELSE TRUE

stable_json_sort_key(obj) == Dumps(obj)

(***************************************************************************)
(* combo/pipeline/promote.py                                               *)
(***************************************************************************)
\* a variant of write_jsonl that writes the rows in the order given
write_jsonl_unsorted(rows) == rows

\* sorted(rows, key=stable_json_sort_key): the lines of the file written
write_jsonl(rows) ==
    SortedByKey([i \in 1..Len(rows) |-> <<(<<stable_json_sort_key(rows[i])>>), rows[i]>>])

\* the mentions that carry a subject id, a predicate and an object id
Bucketed(m) ==
    /\ Truthy(Get(m, "subj_canonical_id"))
    /\ Truthy(Get(m, "obj_canonical_id"))
    /\ Truthy(Get(m, "predicate"))
BucketKey(m) == <<Get(m, "subj_canonical_id"), Get(m, "predicate"), Get(m, "obj_canonical_id")>>

\* buckets: the keys, and each key's mentions in file order; counts['mentions_relations']
bucket_relations(mentions) ==
    LET kept == SelectSeq(mentions, Bucketed) IN
    [keys   |-> {BucketKey(kept[i]) : i \in 1..Len(kept)},
     group  |-> [k \in {BucketKey(kept[i]) : i \in 1..Len(kept)} |->
                    LET InK(m) == BucketKey(m) = k IN SelectSeq(kept, InK)],
     mentions_relations |-> Len(kept)]

max_mentions == 20

\* sorted(group, key=(str(doc_id), str(sent_id), stable_json_sort_key(r)))
SortedGroup(group) ==
    SortedByKey([i \in 1..Len(group) |->
        << <<PyStr(Get(group[i], "doc_id")), PyStr(Get(group[i], "sent_id")),
             stable_json_sort_key(group[i])>>, group[i] >>])

\* float(x.get('confidence') or 0.0)
Confidence(m) == Or(Get(m, "confidence"), JF(0)).v

\* evidence.mentions: the first max_mentions mentions of the sorted group
EvidenceMentions(srt) ==
    [i \in 1..Min2(Len(srt), max_mentions) |->
        D(<< <<"doc_id", Get(srt[i], "doc_id")>>,
             <<"sent_id", Get(srt[i], "sent_id")>>,
             <<"span", Get(srt[i], "span")>>,
             <<"confidence", JF(Confidence(srt[i]))>> >>)]

aggregate_relation_group(group, h) ==
    LET confs    == [i \in 1..Len(group) |-> Confidence(group[i])]
        avg_conf == IF confs = <<>> THEN 0 ELSE Sum(confs) \div Len(confs)
        sent_ids == SortedSet({PyStr(Get(group[i], "sent_id")) :
                                 i \in {j \in 1..Len(group) : Truthy(Get(group[j], "sent_id"))}}, h)
        doc_ids  == SortedSet({PyStr(Get(group[i], "doc_id")) :
                                 i \in {j \in 1..Len(group) : Truthy(Get(group[j], "doc_id"))}}, h)
    IN  D(<< <<"avg_confidence", JF(avg_conf)>>,
             <<"ev_count", JI(Len(sent_ids))>>,
             <<"doc_count", JI(Len(doc_ids))>>,
             <<"mentions", JL(EvidenceMentions(SortedGroup(group)))>> >>)

\* by_canon: for each canonical id of a mention, its distinct sentences and documents
collect_entity_evidence(mentions) ==
    LET kept == SelectSeq(mentions, LAMBDA m : Truthy(Get(m, "canonical_id")))
        cids == {Get(kept[i], "canonical_id") : i \in 1..Len(kept)}
    IN  [cid \in cids |->
            LET mine == {i \in 1..Len(kept) : Get(kept[i], "canonical_id") = cid} IN
            [ev_count  |-> Cardinality({PyStr(Get(kept[i], "sent_id")) :
                               i \in {j \in mine : Truthy(Get(kept[j], "sent_id"))}}),
             doc_count |-> Cardinality({PyStr(Get(kept[i], "doc_id")) :
                               i \in {j \in mine : Truthy(Get(kept[j], "doc_id"))}}),
             mention_count |-> Cardinality(mine)]]

\* canon_idx: canonical_id -> row; a later row of the file replaces an earlier one
CanonIdx(rows) ==
    LET kept == SelectSeq(rows, LAMBDA r : Truthy(Get(r, "canonical_id"))) IN
    [cid \in {Get(kept[i], "canonical_id") : i \in 1..Len(kept)} |->
        kept[CHOOSE i \in 1..Len(kept) :
                /\ Get(kept[i], "canonical_id") = cid
                /\ \A j \in (i + 1)..Len(kept) : Get(kept[j], "canonical_id") # cid]]
\* canon_idx.get(cid)
Lookup(idx, cid) == IF cid \in DOMAIN idx THEN idx[cid] ELSE None

\* the props of the first mention of the group that has any, else None
RelProps(group) ==
    LET with == {i \in 1..Len(group) : Truthy(Get(group[i], "props"))} IN
    IF with = {} THEN None
    ELSE Get(group[CHOOSE i \in with : \A j \in with : i <= j], "props")

\* a variant of the threshold gate that rejects only when both conditions fail
BelowThresholdBoth(agg, conf_thr, min_evidence_val) ==
    ~(Get(agg, "avg_confidence").v >= conf_thr \/ Get(agg, "ev_count").v >= min_evidence_val)

\* the threshold gate: not (agg['avg_confidence'] >= conf_thr and
\* agg['ev_count'] >= min_evidence_val)
BelowThreshold(agg, conf_thr, min_evidence_val) ==
    ~(Get(agg, "avg_confidence").v >= conf_thr /\ Get(agg, "ev_count").v >= min_evidence_val)

\* the reasons of one relation group, in the order the gates append them
RelReasons(key, group, agg, canon_idx, schema, conf_thr, min_evidence_val) ==
    LET schema_entities == Or(Get(schema, "entities"), JD(<<>>))
        schema_rels     == Or(Get(schema, "relations"), JD(<<>>))
        pred == key[2]
        rule == IF pred.t = "str" /\ pred.v \in DOMAIN schema_rels.v
                THEN schema_rels.v[pred.v] ELSE None
        subj == Lookup(canon_idx, key[1])
        obj  == Lookup(canon_idx, key[3])
        subj_missing == IF Truthy(subj) THEN missing_merge_keys(subj, schema_entities) ELSE <<>>
        obj_missing  == IF Truthy(obj) THEN missing_merge_keys(obj, schema_entities) ELSE <<>>
    IN  Concat(<<
          Cond(BelowThreshold(agg, conf_thr, min_evidence_val), "below_threshold"),
          Cond(~Truthy(rule), "predicate_not_allowed"),
          Cond(~Truthy(subj), "missing_subject"),
          Cond(~Truthy(obj), "missing_object"),
          Cond(subj_missing # <<>>, "missing_keys:subject:" \o Join(subj_missing, ",")),
          Cond(obj_missing # <<>>, "missing_keys:object:" \o Join(obj_missing, ",")),
          Cond(Truthy(subj) /\ ~type_constraints_ok(subj, schema_entities),
               "type_constraint_failed"),
          Cond(Truthy(obj) /\ ~type_constraints_ok(obj, schema_entities),
               "type_constraint_failed"),
          IF Truthy(rule) /\ Truthy(subj) /\ Truthy(obj)
          THEN Cond(~domain_range_ok(Or(Get(subj, "labels"), JL(<<>>)).v,
                                     Or(Get(obj, "labels"), JL(<<>>)).v, rule),
                    "domain_range_mismatch")
               \o Cond(~predicate_specific_ok(pred, subj, obj, RelProps(group), schema_entities),
                       "predicate_constraint_failed")
          ELSE <<>> >>)

Strs(xs) == [i \in 1..Len(xs) |-> JS(xs[i])]

\* a variant of SortedReasons that keeps the first reason only
FirstReason(reasons, h) == Strs(<<reasons[1]>>)

\* sorted(set(reasons)): the reasons of a quarantine record
SortedReasons(reasons, h) == Strs(SortedSet(Range(reasons), h))

\* examples: the first three mentions of the sorted group
Examples(srt) ==
    [i \in 1..Min2(Len(srt), 3) |->
        D(<< <<"doc_id", Get(srt[i], "doc_id")>>, <<"sent_id", Get(srt[i], "sent_id")>> >>)]

\* the row of a relation group and where it goes, given its aggregate and its reasons
RelationRow(key, group, agg, reasons, canon_idx, schema_version, conf_thr, min_evidence_val, h) ==
    LET subj    == Lookup(canon_idx, key[1])
        obj     == Lookup(canon_idx, key[3])
        policy  == D(<< <<"conf_thr", JF(conf_thr)>>, <<"min_ev", JI(min_evidence_val)>> >>)
        prov    == D(<< <<"schema_version", schema_version>> >>)
    IN  IF reasons # <<>>
        THEN [key |-> key, promoted |-> FALSE,
              row |-> D(<< <<"subj", D(<< <<"canonical_id", key[1]>> >>)>>,
                           <<"predicate", key[2]>>,
                           <<"obj", D(<< <<"canonical_id", key[3]>> >>)>>,
                           <<"group_key", JL(<<key[1], key[2], key[3]>>)>>,
                           <<"evidence", agg>>,
                           <<"policy", policy>>,
                           <<"reasons", JL(SortedReasons(reasons, h))>>,
                           <<"examples", JL(Examples(SortedGroup(group)))>>,
                           <<"kind", JS("relation")>>,
                           <<"provenance", prov>> >>)]
        ELSE [key |-> key, promoted |-> TRUE,
              row |-> D(<< <<"subj", D(<< <<"canonical_id", key[1]>>,
                                          <<"labels", IF Truthy(subj) THEN Get(subj, "labels")
                                                      ELSE JL(<<>>)>> >>)>>,
                           <<"predicate", key[2]>>,
                           <<"obj", D(<< <<"canonical_id", key[3]>>,
                                         <<"labels", IF Truthy(obj) THEN Get(obj, "labels")
                                                     ELSE JL(<<>>)>> >>)>>,
                           <<"props", Or(RelProps(group), JD(<<>>))>>,
                           <<"evidence", agg>>,
                           <<"policy", policy>>,
                           <<"provenance", prov>> >>)]

\* one turn of the loop over the buckets, from the aggregate on
GateGroup(key, group, agg, canon_idx, schema, schema_version, conf_thr, min_evidence_val, h) ==
    RelationRow(key, group, agg,
                RelReasons(key, group, agg, canon_idx, schema, conf_thr, min_evidence_val),
                canon_idx, schema_version, conf_thr, min_evidence_val, h)

\* one turn of the loop over the buckets
EvalGroup(key, group, canon_idx, schema, schema_version, conf_thr, min_evidence_val, h) ==
    GateGroup(key, group, aggregate_relation_group(group, h), canon_idx, schema,
              schema_version, conf_thr, min_evidence_val, h)

\* the row of an entity and where it goes, given its reasons
EntityRow(cid, ce, reasons, stats, schema_version, h) ==
    LET prov == D(<< <<"schema_version", schema_version>>,
                     <<"ev_count", JI(stats.ev_count)>>,
                     <<"doc_count", JI(stats.doc_count)>> >>)
    IN  IF reasons # <<>>
        THEN [promoted |-> FALSE,
              row |-> D(<< <<"kind", JS("entity")>>,
                           <<"canonical_id", cid>>,
                           <<"type", Get(ce, "type")>>,
                           <<"labels", Get(ce, "labels")>>,
                           <<"reasons", JL(SortedReasons(reasons, h))>>,
                           <<"provenance", prov>> >>)]
        ELSE [promoted |-> TRUE,
              row |-> D(<< <<"canonical_id", cid>>,
                           <<"type", Get(ce, "type")>>,
                           <<"labels", Get(ce, "labels")>>,
                           <<"key", Or(Get(ce, "key"), JD(<<>>))>>,
                           <<"props", Or(Get(ce, "props"), JD(<<>>))>>,
                           <<"provenance", prov>> >>)]

\* the reasons of one entity, in the order the gates append them
EntReasons(ce, schema_entities) ==
    LET missing == missing_merge_keys(ce, schema_entities) IN
    Concat(<<
        Cond(missing # <<>>, "missing_keys:" \o Join(missing, ",")),
        Cond(~entity_keys_present(ce, schema_entities), "missing_entity_keys"),
        Cond(~type_constraints_ok(ce, schema_entities), "type_constraint_failed") >>)

\* one turn of the loop over promoted_entity_ids
EvalEntity(cid, canon_idx, ent_ev, schema, schema_version, h) ==
    IF ~Truthy(Lookup(canon_idx, cid))
    THEN [promoted |-> FALSE,
          row |-> D(<< <<"canonical_id", cid>>,
                       <<"reasons", JL(<<JS("missing_object")>>)>>,
                       <<"provenance", D(<< <<"schema_version", schema_version>> >>)>> >>)]
    ELSE EntityRow(cid, Lookup(canon_idx, cid),
                   EntReasons(Lookup(canon_idx, cid), Or(Get(schema, "entities"), JD(<<>>))),
                   IF cid \in DOMAIN ent_ev THEN ent_ev[cid]
                   ELSE [ev_count |-> 0, doc_count |-> 0],
                   schema_version, h)

\* the distinct elements of a sequence, by first occurrence (the keys of a dict
\* filled in that order)
RECURSIVE Distinct(_)
Distinct(xs) ==
    IF xs = <<>> THEN <<>>
    ELSE LET init == Distinct(SubSeq(xs, 1, Len(xs) - 1))
         IN  IF xs[Len(xs)] \in Range(init) THEN init ELSE Append(init, xs[Len(xs)])

\* sorted(buckets.keys(), key=lambda k: (k[0], k[1], k[2]))
SortedKeys(keys) ==
    SortedByKey([i \in 1..Len(keys) |-> << <<keys[i][1].v, keys[i][2].v, keys[i][3].v>>, keys[i] >>])

\* the loop over the buckets: the row of each group, in sorted key order
EvalKeys(sorted_keys, groups, canon_idx, schema, schema_version, conf_thr, min_evidence_val, h) ==
    [i \in 1..Len(sorted_keys) |->
        EvalGroup(sorted_keys[i], groups[sorted_keys[i]], canon_idx, schema, schema_version,
                  conf_thr, min_evidence_val, h)]
RelationEvals(rels, canon_idx, schema, schema_version, conf_thr, min_evidence_val, h) ==
    EvalKeys(SortedKeys(Distinct([i \in 1..Len(SelectSeq(rels, Bucketed)) |->
                                    BucketKey(SelectSeq(rels, Bucketed)[i])])),
             bucket_relations(rels).group, canon_idx, schema, schema_version,
             conf_thr, min_evidence_val, h)

\* a variant of PromotedEntityIds without the ids that have evidence of their own
PromotedRelationEntityIds(evals, ent_ev, min_evidence_val) ==
    UNION {{evals[i].key[1], evals[i].key[3]} : i \in {j \in 1..Len(evals) : evals[j].promoted}}

\* promoted_entity_ids: the subjects and objects of the promoted relations, and the
\* ids whose own evidence reaches min_evidence
PromotedEntityIds(evals, ent_ev, min_evidence_val) ==
    UNION {{evals[i].key[1], evals[i].key[3]} : i \in {j \in 1..Len(evals) : evals[j].promoted}}
    \cup {cid \in DOMAIN ent_ev : ent_ev[cid].ev_count >= min_evidence_val}

\* the loop over sorted(promoted_entity_ids)
EvalIds(sorted_ids, canon_idx, ent_ev, schema, schema_version, h) ==
    [i \in 1..Len(sorted_ids) |->
        EvalEntity(JS(sorted_ids[i]), canon_idx, ent_ev, schema, schema_version, h)]
EntityEvals(ids, canon_idx, ent_ev, schema, schema_version, h) ==
    EvalIds(SortedSet({cid.v : cid \in ids}, h), canon_idx, ent_ev, schema, schema_version, h)

\* a variant of Rows that puts every evaluation's row into both files
RowsOfAll(evals, promoted) == [i \in 1..Len(evals) |-> evals[i].row]

\* the rows of the evaluations that were promoted (or were not)
RowsOf(sel) == [i \in 1..Len(sel) |-> sel[i].row]
Rows(evals, promoted) == RowsOf(SelectSeq(evals, LAMBDA e : e.promoted = promoted))

\* the four files written and the run report (without duration_seconds)
Outputs(ents, rels, evals, ent_evals, schema_version, conf_thr, min_evidence_val) ==
    [facts_entities  |-> write_jsonl(Rows(ent_evals, TRUE)),
     facts_relations |-> write_jsonl(Rows(evals, TRUE)),
     q_entities      |-> write_jsonl(Rows(ent_evals, FALSE)),
     q_relations     |-> write_jsonl(Rows(evals, FALSE)),
     report |-> D(<< <<"schema_version", schema_version>>,
                     <<"conf_thr", JF(conf_thr)>>,
                     <<"min_ev", JI(min_evidence_val)>>,
                     <<"counts", D(<<
                         <<"mentions_entities", JI(Len(ents))>>,
                         <<"mentions_relations", JI(bucket_relations(rels).mentions_relations)>>,
                         <<"relation_groups", JI(Cardinality(bucket_relations(rels).keys))>>,
                         <<"promoted_relations", JI(Len(Rows(evals, TRUE)))>>,
                         <<"promoted_entities", JI(Len(Rows(ent_evals, TRUE)))>>,
                         <<"quarantined_relations", JI(Len(Rows(evals, FALSE)))>>,
                         <<"quarantined_entities", JI(Len(Rows(ent_evals, FALSE)))>> >>)>>,
                     <<"errors", JI(0)>> >>)]

\* promote() from the relation loop on
PromoteEntities(ents, rels, evals, canon_idx, ent_ev, schema, schema_version, conf_thr, min_evidence_val, h) ==
    Outputs(ents, rels, evals,
            EntityEvals(PromotedEntityIds(evals, ent_ev, min_evidence_val), canon_idx, ent_ev,
                        schema, schema_version, h),
            schema_version, conf_thr, min_evidence_val)

\* promote() from the loading of the three files on
PromoteLoaded(ents, rels, canon_idx, schema, schema_version, conf_thr, min_evidence_val, h) ==
    PromoteEntities(ents, rels,
                    RelationEvals(rels, canon_idx, schema, schema_version, conf_thr,
                                  min_evidence_val, h),
                    canon_idx, collect_entity_evidence(ents), schema, schema_version,
                    conf_thr, min_evidence_val, h)

\* promote(), for a process whose hash seed is h.  An option that is None is an
\* option not given.
promote(ents, rels, linked_rows, schema, conf_thr_opt, min_ev_opt, h) ==
    LET defaults == Or(Or(Get(schema, "promotion"), Get(schema, "promotion_defaults")), JD(<<>>))
    IN  PromoteLoaded(ents, rels, CanonIdx(linked_rows), schema,
                      JS(PyStr(Or(Get(schema, "schema_version"), JS("1.0.0")))),
                      IF conf_thr_opt = None THEN GetD(defaults, "conf_thr", JF(4200)).v
                      ELSE conf_thr_opt.v,
                      IF min_ev_opt = None THEN GetD(defaults, "min_evidence", JI(2)).v
                      ELSE min_ev_opt.v,
                      h)

\* ---- the inputs of the promotion runs ----
MaxRelMentions == 2
MaxEntMentions == 1
MaxRuns == 2

\* the schema document: two entity types (one with a required field and a merge key,
\* one with a merge key and a value range) and two predicates
SchemaDoc ==
    D(<< <<"schema_version", JS("1.0.0")>>,
         <<"entities", D(<<
             <<"Technology", D(<< <<"required", JL(<<JS("name")>>)>>,
                                  <<"key", JL(<<JS("uri")>>)>> >>)>>,
             <<"kb_TRL", D(<< <<"key", JL(<<JS("value")>>)>>,
                              <<"constraints", D(<< <<"value_range", JL(<<JI(1), JI(9)>>)>> >>)>> >>)>> >>)>>,
         <<"relations", D(<<
             <<"AT_TRL", D(<< <<"domain", JL(<<JS("Technology")>>)>>,
                              <<"range", JL(<<JS("TRL")>>)>> >>)>>,
             <<"USES", D(<< <<"domain", JL(<<JS("*")>>)>>,
                            <<"range", JL(<<JS("Technology"), JS("Org")>>)>> >>)>> >>)>>,
         <<"promotion", D(<< <<"conf_thr", JF(4200)>>, <<"min_evidence", JI(2)>> >>)>> >>)

Row(cid, type, labels, key, props) ==
    D(<< <<"canonical_id", JS(cid)>>, <<"type", JS(type)>>, <<"labels", JL(Strs(labels))>>,
         <<"key", key>>, <<"props", props>> >>)

TechA      == Row("tech:a", "Technology", <<"Technology">>,
                  D(<< <<"uri", JS("u")>> >>), D(<< <<"name", JS("Railgun")>> >>))
\* the same entity without the required field "name"
TechANoName == Row("tech:a", "Technology", <<"Technology", "Weapon">>,
                  D(<< <<"uri", JS("u")>> >>), JD(<<>>))
\* no merge key, and labels outside the domain of AT_TRL
TechB      == Row("tech:b", "Technology", <<"Other">>, JD(<<>>),
                  D(<< <<"name", JS("B")>> >>))
Trl8       == Row("trl:8", "kb_TRL", <<"TRL">>, D(<< <<"value", JI(8)>> >>), JD(<<>>))
\* a value outside the range 1..9
Trl8Bad    == Row("trl:8", "kb_TRL", <<"TRL">>, D(<< <<"value", JI(11)>> >>), JD(<<>>))

\* the linked-entities files tried: one with entities that fail the entity gates, and
\* two that hold tech:a twice, in both orders
LinkedFiles ==
    { <<TechANoName, Trl8Bad, TechB>>,
      <<TechA, TechANoName, Trl8>>, <<TechANoName, TechA, Trl8>> }
MinEvChoices == {1, 2}

Rel(mid, pred, subj, obj, doc, sent, conf, props) ==
    D(<< <<"mention_id", JS(mid)>>, <<"predicate", JS(pred)>>,
         <<"subj_canonical_id", JS(subj)>>, <<"obj_canonical_id", JS(obj)>>,
         <<"doc_id", JS(doc)>>, <<"sent_id", sent>>, <<"confidence", JF(conf)>>,
         <<"props", props>> >>)

\* the relation mentions tried.  Confidences: 0.5 = 3000, 0.7 = 4200, 0.9 = 5400.
RelPool ==
    { Rel("r1", "AT_TRL", "tech:a", "trl:8", "d1", JI(1), 4200,
          D(<< <<"value", JI(8)>> >>)),
      Rel("r2", "AT_TRL", "tech:a", "trl:8", "d1", JI(2), 5400, JD(<<>>)),
      Rel("r3", "AT_TRL", "tech:a", "trl:8", "d2", JI(0), 4200,
          D(<< <<"value", JI(9)>> >>)),
      Rel("r4", "AT_TRL", "tech:a", "trl:8", "d1", JI(1), 3000, JD(<<>>)),
      Rel("r5", "BOGUS", "tech:b", "org:q", "d1", JI(1), 5400, JD(<<>>)),
      Rel("r6", "AT_TRL", "trl:8", "trl:8", "d1", JI(2), 5400, JD(<<>>)),
      Rel("r7", "AT_TRL", "", "trl:8", "d1", JI(1), 5400, JD(<<>>)) }

Ent(mid, cid, doc, sent) ==
    D(<< <<"mention_id", JS(mid)>>, <<"canonical_id", JS(cid)>>,
         <<"doc_id", JS(doc)>>, <<"sent_id", sent>> >>)

EntPool ==
    { Ent("e1", "tech:a", "d1", JI(1)),
      Ent("e2", "tech:a", "d1", JI(2)),
      Ent("e3", "org:q", "d2", JI(0)) }

\* a mention is appended to mentions.relations.jsonl before the first run
WriteRelMention(m) ==
    /\ runs = 0
    /\ Len(rel_mentions) < MaxRelMentions
    /\ rel_mentions' = Append(rel_mentions, m)
    /\ UNCHANGED <<ent_mentions, linked, min_ev, out, runs, registry_vars, link_vars, other_vars>>

\* a mention is appended to mentions.entities.jsonl before the first run
WriteEntMention(m) ==
    /\ runs = 0
    /\ Len(ent_mentions) < MaxEntMentions
    /\ ent_mentions' = Append(ent_mentions, m)
    /\ UNCHANGED <<rel_mentions, linked, min_ev, out, runs, registry_vars, link_vars, other_vars>>

\* a run of promote() in a process whose hash seed is h
Promote(h) ==
    /\ runs < MaxRuns
    /\ out' = promote(ent_mentions, rel_mentions, linked, SchemaDoc, None, JI(min_ev), h)
    /\ runs' = runs + 1
    /\ UNCHANGED <<ent_mentions, rel_mentions, linked, min_ev, registry_vars, link_vars, other_vars>>

\* ---- the inputs of the runs that try the entity and label gates ----
\* a type the schema does not declare
Gadget   == Row("gad:x", "Gadget", <<"Gadget">>, D(<< <<"uri", JS("g")>> >>),
                D(<< <<"name", JS("G")>> >>))
\* the merge key present with an empty value, and present with null
TechEmptyKey == Row("tech:e", "Technology", <<"Technology">>, D(<< <<"uri", JS("")>> >>),
                    D(<< <<"name", JS("E")>> >>))
TechNullKey  == Row("tech:n", "Technology", <<"Technology">>, D(<< <<"uri", None>> >>),
                    D(<< <<"name", JS("N")>> >>))
\* two labels, one of them in the domain of AT_TRL
TechW    == Row("tech:w", "Technology", <<"Weapon", "Technology">>,
                D(<< <<"uri", JS("w")>> >>), D(<< <<"name", JS("W")>> >>))
GateLinkedFiles == { <<Gadget, TechEmptyKey, TechNullKey, TechW, TechB, Trl8>> }

GateRelPool ==
    { Rel("g1", "AT_TRL", "tech:w", "trl:8", "d1", JI(1), 5400, JD(<<>>)),
      Rel("g2", "AT_TRL", "tech:b", "trl:8", "d1", JI(1), 5400, JD(<<>>)),
      Rel("g3", "AT_TRL", "tech:w", "tech:w", "d1", JI(1), 5400, JD(<<>>)),
      Rel("g4", "USES", "trl:8", "tech:w", "d1", JI(2), 5400, JD(<<>>)),
      Rel("g5", "USES", "gad:x", "trl:8", "d1", JI(2), 5400, JD(<<>>)),
      Rel("g6", "BOGUS", "trl:8", "trl:8", "d1", JI(2), 5400, JD(<<>>)),
      Rel("g7", "USES", "tech:w", "org:q", "d1", JI(2), 5400, JD(<<>>)) }

GateEntPool ==
    { Ent("h1", "gad:x", "d1", JI(1)),
      Ent("h2", "tech:e", "d1", JI(1)),
      Ent("h3", "tech:n", "d1", JI(1)),
      Ent("h4", "tech:w", "d1", JI(1)),
      Ent("h5", "tech:b", "d1", JI(1)),
      Ent("h6", "org:q", "d1", JI(1)) }

(***************************************************************************)
(* The identity registry (combo/link/registry.py).  A table is the set of  *)
(* its rows; INSERT OR IGNORE adds a row unless a uniqueness constraint of  *)
(* the table's schema rejects it.                                          *)
(***************************************************************************)
\* normalize_label(label) = (label or "").strip().lower(); label a JSON value
normalize_label(label) == Lower(Strip(Or(label, JS("")).v))

\* str(uuid.uuid5(NAMESPACE_URL, name)): the hash is taken to be injective, the
\* identifier is written uuid5:<name>
uuid5(name) == "uuid5:" \o name

\* a variant of deterministic_id that hashes the label alone
deterministic_id_of_label(ent_type, normalized_label) ==
    uuid5("combo://entity/" \o normalize_label(normalized_label))

deterministic_id(ent_type, normalized_label) ==
    uuid5("combo://entity/" \o Upper(Or(ent_type, JS("")).v) \o "|"
            \o normalize_label(normalized_label))

\* variants of the two guarded inserts, for tables without uniqueness constraints
InsertEntity(tbl, row) == tbl \cup {row}
InsertExternalId(tbl, row) == tbl \cup {row}

\* entities: canonical_id PRIMARY KEY, UNIQUE(type, normalized_label)
InsertOrIgnoreEntity(tbl, row) ==
    IF \E r \in tbl : \/ r.canonical_id = row.canonical_id
                      \/ (r.type = row.type /\ r.normalized_label = row.normalized_label)
    THEN tbl ELSE tbl \cup {row}

\* aliases: UNIQUE(canonical_id, alias)
InsertOrIgnoreAlias(tbl, row) == tbl \cup {row}

\* external_ids: UNIQUE(source, external_id)
InsertOrIgnoreExternalId(tbl, row) ==
    IF \E r \in tbl : r.source = row.source /\ r.external_id = row.external_id
    THEN tbl ELSE tbl \cup {row}

\* A registry is the record [entities, aliases, external_ids] of its tables; each
\* operation gives the registry after the call (and, for get_or_create_canonical,
\* the returned id).
get_or_create_canonical(reg, ent_type, normalized_label, primary_name) ==
    LET ent_type_u == Upper(Or(ent_type, JS("")).v)
        norm       == normalize_label(normalized_label)
        found      == {r \in reg.entities : r.type = ent_type_u /\ r.normalized_label = norm}
        can_id     == deterministic_id(JS(ent_type_u), JS(norm))
    IN  IF found # {}
        THEN [reg |-> reg, ret |-> (CHOOSE r \in found : TRUE).canonical_id]
        ELSE [reg |-> [reg EXCEPT
                        !.entities = InsertOrIgnoreEntity(@,
                            [canonical_id |-> can_id, type |-> ent_type_u,
                             normalized_label |-> norm, primary_name |-> primary_name]),
                        !.aliases = IF Truthy(primary_name)
                                    THEN InsertOrIgnoreAlias(@, [canonical_id |-> can_id,
                                                                 alias |-> primary_name.v])
                                    ELSE @],
              ret |-> can_id]

add_alias(reg, canonical_id, alias) ==
    IF ~Truthy(alias) THEN reg
    ELSE [reg EXCEPT !.aliases = InsertOrIgnoreAlias(@, [canonical_id |-> canonical_id,
                                                         alias |-> alias.v])]

add_external_id(reg, canonical_id, source, external_id) ==
    IF ~Truthy(external_id) THEN reg
    ELSE [reg EXCEPT !.external_ids =
            InsertOrIgnoreExternalId(@, [canonical_id |-> canonical_id, source |-> source,
                                         external_id |-> external_id.v])]

Registry == [entities |-> entities, aliases |-> aliases, external_ids |-> external_ids]
\* the registry of a new file, after init_schema
EmptyRegistry == [entities |-> {}, aliases |-> {}, external_ids |-> {}]

\* ---- the calls made on the registry ----
MaxCalls == 3

\* the (type, label) arguments tried: case and whitespace variants of one label, one
\* label under two types, and types and labels that contain the separator "|"
RegPairs ==
    { <<JS("org"), JS("ACME")>>,   <<JS("ORG"), JS(" acme ")>>,
      <<JS("ORG"), JS("Acme")>>,   <<JS("PERSON"), JS("Acme")>>,
      <<JS("kb|1"), JS("x")>>,     <<JS("kb"), JS("1|x")>>,
      <<None, None>> }
RegNames   == {None, JS("Acme Corp")}
RegIds     == {deterministic_id(JS("ORG"), JS("acme")),
               deterministic_id(JS("PERSON"), JS("acme"))}
RegAliases == {JS(""), JS("Acme Corp"), JS("ACME")}
RegSources == {"wikidata", "uei"}
RegExtIds  == {JS(""), JS("Q123")}

GetOrCreateCanonical(ent_type, label, primary_name) ==
    /\ calls < MaxCalls
    /\ LET r == get_or_create_canonical(Registry, ent_type, label, primary_name)
       IN  /\ entities' = r.reg.entities
           /\ aliases' = r.reg.aliases
           /\ external_ids' = r.reg.external_ids
           /\ last_call' = [op |-> "get_or_create_canonical", type |-> ent_type,
                            label |-> label, primary_name |-> primary_name, ret |-> r.ret]
           /\ id_log' = id_log \cup {[type |-> ent_type, label |-> label, ret |-> r.ret]}
    /\ calls' = calls + 1
    /\ UNCHANGED <<promote_vars, link_vars, other_vars>>

AddAlias(canonical_id, alias) ==
    /\ calls < MaxCalls
    /\ LET r == add_alias(Registry, canonical_id, alias)
       IN  /\ entities' = r.entities
           /\ aliases' = r.aliases
           /\ external_ids' = r.external_ids
    /\ last_call' = [op |-> "add_alias", canonical_id |-> canonical_id, alias |-> alias]
    /\ calls' = calls + 1
    /\ UNCHANGED <<id_log, promote_vars, link_vars, other_vars>>

AddExternalId(canonical_id, source, external_id) ==
    /\ calls < MaxCalls
    /\ LET r == add_external_id(Registry, canonical_id, source, external_id)
       IN  /\ entities' = r.entities
           /\ aliases' = r.aliases
           /\ external_ids' = r.external_ids
    /\ last_call' = [op |-> "add_external_id", canonical_id |-> canonical_id,
                     source |-> source, external_id |-> external_id]
    /\ calls' = calls + 1
    /\ UNCHANGED <<id_log, promote_vars, link_vars, other_vars>>

(***************************************************************************)
(* The cross-document linker (combo/link/linker.py).  The input directory   *)
(* is a function from the base names of its *.entities.jsonl files to their *)
(* entity mentions; os.listdir() enumerates the files in an order the file  *)
(* system chooses.                                                         *)
(***************************************************************************)
\* the adapter caches as load_cache() returns them: normalized name -> id
wd_cache  == D(<< <<"acme", JS("Q123")>> >>)
uei_cache == D(<< <<"acme", JS("UEI9")>> >>)
\* wd.lookup / uei.lookup
lookup(normalized_name, cache) == Get(cache, Lower(Strip(normalized_name)))

\* lab, text and key_val of an entity mention
EntLab(e)    == Upper(Or(Or(Get(e, "label"), Get(e, "type")), JS("")).v)
EntText(e)   == Or(Or(Get(e, "text"), Get(e, "label")), JS("")).v
EntKeyVal(e) ==
    Or(Or(Get(e, "resolved_entity_id"), Get(e, "entity_id")),
       JS(normalize_label(JS(EntText(e))))).v
GroupKey(e)  == <<EntLab(e), EntKeyVal(e)>>

\* the display name of a group: the most frequent text, the least one among equals
DisplayName(members) ==
    LET texts    == {EntText(members[i]) : i \in 1..Len(members)}
        Count(x) == Cardinality({i \in 1..Len(members) : EntText(members[i]) = x})
    IN  CHOOSE x \in texts :
            \A y \in texts : \/ y = x
                             \/ Count(x) > Count(y)
                             \/ (Count(x) = Count(y) /\ StrLess(x, y))

\* g['mention_ids']: the truthy mention ids of the group, in file order
MentionIds(members) ==
    LET with == SelectSeq(members, LAMBDA e : Truthy(Get(e, "mention_id")))
    IN  [i \in 1..Len(with) |-> Get(with[i], "mention_id").v]

ExtId(source, id) == D(<< <<"source", JS(source)>>, <<"id", id>> >>)

\* one turn of the loop over the groups, from the canonical id on: the aliases and
\* external ids registered, and the row
LinkCanonical(reg, can_id, k, members, name) ==
    LET norm_name == normalize_label(JS(name))
        wdid == IF Truthy(wd_cache) THEN lookup(norm_name, wd_cache) ELSE None
        u    == IF Truthy(uei_cache) /\ k[1] \in {"ORG", "ORGANIZATION"}
                THEN lookup(norm_name, uei_cache) ELSE None
        reg1 == add_alias(reg, can_id, JS(name))
        reg2 == IF Truthy(wdid) THEN add_external_id(reg1, can_id, "wikidata", wdid) ELSE reg1
        reg3 == IF Truthy(u) THEN add_external_id(reg2, can_id, "uei", u) ELSE reg2
        ext_ids == Cond(Truthy(wdid), ExtId("wikidata", wdid)) \o Cond(Truthy(u), ExtId("uei", u))
    IN  [reg |-> reg3,
         row |-> D(<< <<"doc_id", Get(members[1], "doc_id")>>,
                      <<"canonical_id", JS(can_id)>>,
                      <<"type", JS(k[1])>>,
                      <<"name", JS(name)>>,
                      <<"mention_ids", JL(Strs(SortedStrs(MentionIds(members))))>>,
                      <<"external_ids",
                        JL(SortedByKey([i \in 1..Len(ext_ids) |->
                               << <<Get(ext_ids[i], "source").v, Get(ext_ids[i], "id").v>>,
                                  ext_ids[i] >>]))>> >>)]

\* one turn of the loop over the groups, from the display name on
LinkNamed(r, k, members, name) == LinkCanonical(r.reg, r.ret, k, members, name)
LinkGroup(reg, k, members) ==
    LinkNamed(get_or_create_canonical(reg, JS(k[1]), JS(k[2]), JS(DisplayName(members))),
              k, members, DisplayName(members))

\* the loop over the groups of one document, in the order of their first mentions:
\* the registry after it and the rows appended
RECURSIVE LinkGroups(_, _, _)
LinkGroupsStep(init, k, ents) ==
    LET g == LinkGroup(init.reg, k, SelectSeq(ents, LAMBDA e : GroupKey(e) = k))
    IN  [reg |-> g.reg, rows |-> Append(init.rows, g.row)]
LinkGroups(reg, keys, ents) ==
    IF keys = <<>> THEN [reg |-> reg, rows |-> <<>>]
    ELSE LinkGroupsStep(LinkGroups(reg, SubSeq(keys, 1, Len(keys) - 1), ents),
                        keys[Len(keys)], ents)

\* rows.sort(key=json.dumps(sort_keys=True)), then _write_jsonl(): the lines written
linker_write_jsonl(rows) ==
    SortedByKey([i \in 1..Len(rows) |-> <<(<<Dumps(rows[i])>>), rows[i]>>])

\* the loop over docs.items(): a file without entity lines makes no document; each
\* document's rows are written to linked.entities.jsonl inside the loop
RECURSIVE LinkDocs(_, _, _)
LinkDocsStep(prev, ents) ==
    IF ents = <<>> THEN prev
    ELSE LET g == LinkGroups(prev.reg, Distinct([i \in 1..Len(ents) |-> GroupKey(ents[i])]), ents)
         IN  [reg |-> g.reg, file |-> JL(linker_write_jsonl(g.rows)),
              docs |-> prev.docs + 1, entities |-> prev.entities + Len(g.rows)]
LinkDocs(start, order, dir) ==
    IF order = <<>> THEN start
    ELSE LinkDocsStep(LinkDocs(start, SubSeq(order, 1, Len(order) - 1), dir),
                      dir[order[Len(order)]])

\* link_entities(): the registry, the output file and the totals after a run that
\* enumerates the directory in the given order; file is the output file before the run
link_entities(reg, dir, order, file) ==
    LinkDocs([reg |-> reg, file |-> file, docs |-> 0, entities |-> 0], order, dir)

\* ---- the linker runs ----
MaxFiles == 2
MaxLinkRuns == 2

Mention(mid, label, text, doc) ==
    D(<< <<"mention_id", JS(mid)>>, <<"label", JS(label)>>, <<"text", JS(text)>>,
         <<"doc_id", JS(doc)>> >>)
\* a name in two spellings, and the same name under another type
MentionAcme1 == Mention("m1", "ORG", "ACME", "d1")
MentionAcme2 == Mention("m2", "org", " acme ", "d1")
MentionAcme3 == Mention("m3", "PRODUCT", "Acme", "d2")
\* the name in a mention that carries an upstream entity_id
MentionAcme4 == JD(("entity_id" :> JS("e9")) @@ Mention("m4", "ORG", "Acme", "d3").v)
\* the contents tried for an entities file
EntityFiles ==
    { <<MentionAcme1, MentionAcme2>>, <<MentionAcme3>>,
      <<MentionAcme2, MentionAcme3, MentionAcme1>>, <<MentionAcme4>>, <<>> }
FileNames == {"a", "b", "c"}

\* the orders in which os.listdir() can enumerate the files
ListDirOrders(dir) ==
    {s \in [1..Cardinality(DOMAIN dir) -> DOMAIN dir] : Range(s) = DOMAIN dir}

\* a file is put into the input directory before the first run
WriteEntitiesFile(base, ents) ==
    /\ link_log = <<>> /\ link_crashes = <<>>
    /\ base \notin DOMAIN in_dir
    /\ Cardinality(DOMAIN in_dir) < MaxFiles
    /\ in_dir' = (base :> ents) @@ in_dir
    /\ UNCHANGED <<linked_out, link_report, link_log, link_crashes, promote_vars, registry_vars, other_vars>>

\* the effects of a run r of link_entities()
LinkDone(r, order) ==
    /\ entities' = r.reg.entities
    /\ aliases' = r.reg.aliases
    /\ external_ids' = r.reg.external_ids
    /\ linked_out' = r.file
    /\ link_report' = D(<< <<"docs", JI(r.docs)>>, <<"entities", JI(r.entities)>>,
                           <<"errors", JI(0)>> >>)
    /\ link_log' = Append(link_log, [order |-> order, file |-> r.file])

\* a run of link_entities() over the input directory
LinkEntities(order) ==
    /\ Len(link_log) < MaxLinkRuns
    /\ LinkDone(link_entities(Registry, in_dir, order, linked_out), order)
    /\ UNCHANGED <<in_dir, link_crashes, last_call, id_log, calls, promote_vars, other_vars>>

(***************************************************************************)
(* The within-document coreference resolver (combo/coref/within_doc.py).    *)
(***************************************************************************)
\* PRONOUNS: lowercased form -> (number, gender)
PRONOUNS ==
    [f \in {"it", "this", "that", "he", "she", "him", "her", "they", "them",
            "these", "those"} |->
        CASE f \in {"it", "this", "that"} -> <<"singular", "neut">>
          [] f \in {"he", "him"}          -> <<"singular", "masc">>
          [] f \in {"she", "her"}         -> <<"singular", "fem">>
          [] f \in {"they", "them"}       -> <<"plural", "unknown">>
          [] f \in {"these", "those"}     -> <<"plural", "neut">>]
DEVICE_LIKE_WORDS ==
    {"drone", "system", "device", "battery", "pack", "railgun", "prototype"}
FEMALE_NAMES == {"jane", "alice", "mary", "anna", "susan", "kate", "karen", "linda"}
MALE_NAMES   == {"bob", "john", "michael", "tom", "david", "peter", "paul"}

\* w in txt
Contains(txt, w) == \E i \in 1..(Len(txt) - Len(w) + 1) : SubSeq(txt, i, i + Len(w) - 1) = w

\* the lowercased, stripped text of a mention
LowText(m) == Lower(Strip(Or(Get(m, "text"), JS("")).v))

\* the gender hint of the name gazetteer for PERSON mentions
NameGender(m, low, gender, is_pron) ==
    IF Upper(Or(Get(m, "type"), JS("")).v) = "PERSON" /\ gender = JS("unknown") /\ ~is_pron
    THEN IF low \in FEMALE_NAMES THEN JS("fem")
         ELSE IF low \in MALE_NAMES THEN JS("masc") ELSE gender
    ELSE gender

\* the features of a mention whose lowercased text is low
DeriveFeatures(m, low, is_pron) ==
    JD(Items(<<
        <<"is_pronoun", JB(Truthy(GetD(m, "is_pronoun", JB(is_pron))))>>,
        <<"pronoun_form", IF Get(m, "pronoun_form") # None THEN Get(m, "pronoun_form")
                          ELSE IF is_pron THEN JS(low) ELSE None>>,
        <<"number", Or(Get(m, "number"),
                       JS(IF is_pron THEN PRONOUNS[low][1] ELSE "unknown"))>>,
        <<"gender", NameGender(m, low,
                        Or(Get(m, "gender"),
                           JS(IF is_pron THEN PRONOUNS[low][2] ELSE "unknown")),
                        is_pron)>>,
        <<"sent_id", GetD(m, "sent_id", JI(0))>>,
        <<"mention_id", Or(Get(m, "mention_id"),
                           JS(PyStr(Get(m, "doc_id")) \o ":" \o PyStr(Get(m, "chunk_id"))
                              \o ":" \o PyStr(Get(m, "start")) \o "-"
                              \o PyStr(Get(m, "end"))))>> >>) @@ m.v)

_derive_mention_features(m) == DeriveFeatures(m, LowText(m), LowText(m) \in DOMAIN PRONOUNS)

_estimate_number_for_candidate(c) ==
    LET txt == Strip(Or(Get(c, "text"), JS("")).v)
    IN  IF Upper(Or(Get(c, "type"), JS("")).v) = "ORG" THEN "singular"
        ELSE IF Lower(txt) \in {"they", "these", "those"} THEN "plural"
        ELSE IF Len(txt) > 3 /\ EndsWith(txt, "s") THEN "plural"
        ELSE "singular"

\* a variant of _is_device_like that tests the type only
is_device_typed(c) == Upper(Or(Get(c, "type"), JS("")).v) \in {"PRODUCT", "DEVICE"}

_is_device_like(c) ==
    \/ Upper(Or(Get(c, "type"), JS("")).v) \in {"PRODUCT", "DEVICE"}
    \/ \E w \in DEVICE_LIKE_WORDS : Contains(Lower(Or(Get(c, "text"), JS("")).v), w)

\* int(m.get("sent_id") or 0)
SentId(m) == Or(Get(m, "sent_id"), JI(0)).v
Abs(n) == IF n < 0 THEN -n ELSE n

\* a variant of Candidates that takes the nearest earlier mentions of any sentence
CandidatesOfAnySentence(aug, i, max_sent_back, max_mentions_back) ==
    [n \in 1..Min2(i - 1, max_mentions_back) |-> i - n]

\* the positions of the candidates of the pronoun at position i, the nearest first:
\* the earlier mentions within max_sent_back sentences, at most max_mentions_back
Candidates(aug, i, max_sent_back, max_mentions_back) ==
    LET near == SelectSeq([n \in 1..(i - 1) |-> i - n],
                          LAMBDA j : Abs(SentId(aug[i]) - SentId(aug[j])) <= max_sent_back)
    IN  SubSeq(near, 1, Min2(Len(near), max_mentions_back))

\* a variant of compatible that tests the number only
compatible_in_number(c, form, num) ==
    /\ num = "plural" => _estimate_number_for_candidate(c) = "plural"
    /\ num = "singular" => _estimate_number_for_candidate(c) = "singular"

\* compatible(c) for a pronoun of the given form and number
compatible(c, form, num) ==
    /\ form \in {"he", "him"} => GetD(c, "gender", JS("unknown")).v \in {"masc", "unknown"}
    /\ form \in {"she", "her"} => GetD(c, "gender", JS("unknown")).v \in {"fem", "unknown"}
    /\ num = "plural" => _estimate_number_for_candidate(c) = "plural"
    /\ num = "singular" => _estimate_number_for_candidate(c) = "singular"

\* the fields a mention gets before the search, and those of a resolved pronoun
Unresolved ==
    Items(<< <<"antecedent_mention_id", None>>, <<"resolved_entity_id", None>>,
             <<"coref_rule", JS("unresolved")>>, <<"coref_conf", JF(0)>> >>)
ResolvedTo(chosen, rule, conf) ==
    Items(<< <<"antecedent_mention_id", Get(chosen, "mention_id")>>,
             <<"resolved_entity_id", Or(Get(chosen, "id"), Get(chosen, "mention_id"))>>,
             <<"coref_rule", JS(rule)>>, <<"coref_conf", JF(conf)>> >>)

\* a variant of Choose that gives every nearest_compatible link the confidence 0.75
ChooseWithOneConfidence(aug, compat, form, num) ==
    IF form \in {"it", "this", "that"}
          /\ SelectSeq(compat, LAMBDA j : _is_device_like(aug[j])) # <<>>
    THEN ResolvedTo(aug[SelectSeq(compat, LAMBDA j : _is_device_like(aug[j]))[1]],
                    "prefer_device_over_org", 5100)
    ELSE IF compat # <<>> THEN ResolvedTo(aug[compat[1]], "nearest_compatible", 4500)
    ELSE Unresolved

\* the choice among the compatible candidates (positions, the nearest first);
\* confidences in units of 1/6000
Choose(aug, compat, form, num) ==
    LET dev_first == SelectSeq(compat, LAMBDA j : _is_device_like(aug[j]))
    IN  IF form \in {"it", "this", "that"} /\ dev_first # <<>>
        THEN ResolvedTo(aug[dev_first[1]], "prefer_device_over_org", 5100)
        ELSE IF compat # <<>>
        THEN ResolvedTo(aug[compat[1]], "nearest_compatible",
                        IF form \in {"it", "this", "that"} \/ num = "singular"
                        THEN 4500 ELSE 4200)
        ELSE Unresolved

\* one turn of the loop over the mentions
ResolveMention(aug, i, form, num, max_sent_back, max_mentions_back) ==
    IF ~Truthy(Get(aug[i], "is_pronoun")) THEN JD(Unresolved @@ aug[i].v)
    ELSE JD(Choose(aug,
                   SelectSeq(Candidates(aug, i, max_sent_back, max_mentions_back),
                             LAMBDA j : compatible(aug[j], form, num)),
                   form, num) @@ aug[i].v)

ResolveAll(aug, max_sent_back, max_mentions_back) ==
    [i \in 1..Len(aug) |->
        ResolveMention(aug, i, Lower(Or(Get(aug[i], "pronoun_form"), JS("")).v),
                       Or(Get(aug[i], "number"), JS("unknown")).v,
                       max_sent_back, max_mentions_back)]

resolve_coref(ents, max_sent_back, max_mentions_back) ==
    ResolveAll([i \in 1..Len(ents) |-> _derive_mention_features(ents[i])],
               max_sent_back, max_mentions_back)

\* process_er_dir, for one file: the features are derived, then resolve_coref
process_er_file(ents, max_sent_back, max_mentions_back) ==
    resolve_coref([i \in 1..Len(ents) |-> _derive_mention_features(ents[i])],
                  max_sent_back, max_mentions_back)

\* ---- the documents resolved ----
MaxMentions == 4

\* a mention as the tests build it
mk(doc_id, chunk_id, text, start, end, typ, sent_id) ==
    D(<< <<"doc_id", JS(doc_id)>>, <<"chunk_id", JS(chunk_id)>>, <<"text", JS(text)>>,
         <<"start", JI(start)>>, <<"end", JI(end)>>, <<"type", typ>>,
         <<"sent_id", JI(sent_id)>> >>)
\* fields an upstream stage has set on a mention
Upstream ==
    Items(<< <<"resolved_entity_id", JS("e9")>>, <<"coref_rule", JS("upstream")>> >>)

\* the mentions tried at position pos of the document: persons of both genders, the
\* gendered, neuter and plural pronouns, an organisation (with upstream fields), device
\* nouns in singular and plural, a product whose name ends in "ss"; the sentences are
\* 0, 1 and 4, so that 'It' has mentions more than max_sent_back sentences back
MentionsAt(pos) ==
    { mk("d1", "c1", "Jane", pos, pos, JS("PERSON"), 0),
      mk("d1", "c1", "Bob", pos, pos, JS("PERSON"), 0),
      mk("d1", "c1", "She", pos, pos, JS("PERSON"), 1),
      mk("d1", "c1", "him", pos, pos, JS("PERSON"), 1),
      JD(Upstream @@ mk("d1", "c1", "ACME", pos, pos, JS("ORG"), 1).v),
      mk("d1", "c1", "prototype drone", pos, pos, None, 1),
      mk("d1", "c1", "glass", pos, pos, JS("PRODUCT"), 1),
      mk("d1", "c1", "It", pos, pos, None, 4),
      mk("d1", "c1", "battery packs", pos, pos, JS("PRODUCT"), 0),
      mk("d1", "c1", "They", pos, pos, None, 1) }

\* the (max_sent_back, max_mentions_back) a call is made with: the defaults, and a
\* window of one mention of the same sentence
CorefWindows == { <<3, 30>>, <<0, 1>> }

\* a mention is appended to the document before it is resolved
ReadMention(m) ==
    /\ coref_out = None
    /\ Len(coref_in) < MaxMentions
    /\ coref_in' = Append(coref_in, m)
    /\ UNCHANGED <<coref_out, coref_call, promote_vars, registry_vars, link_vars, race_vars, write_vars, cli_vars>>

\* resolve_coref(ents, max_sent_back, max_mentions_back)
ResolveCoref(max_sent_back, max_mentions_back) ==
    /\ coref_out = None
    /\ coref_in # <<>>
    /\ coref_out' = JL(resolve_coref(coref_in, max_sent_back, max_mentions_back))
    /\ coref_call' = [op |-> "resolve_coref", max_sent_back |-> max_sent_back,
                      max_mentions_back |-> max_mentions_back]
    /\ UNCHANGED <<coref_in, promote_vars, registry_vars, link_vars, race_vars, write_vars, cli_vars>>

\* the coref command on the document, with its default window
ProcessErFile ==
    /\ coref_out = None
    /\ coref_in # <<>>
    /\ coref_out' = JL(process_er_file(coref_in, 3, 30))
    /\ coref_call' = [op |-> "process_er_dir", max_sent_back |-> 3,
                      max_mentions_back |-> 30]
    /\ UNCHANGED <<coref_in, promote_vars, registry_vars, link_vars, race_vars, write_vars, cli_vars>>

\* the registry calls of one turn of the loop over the groups that have committed
\* when the run is interrupted after the first ncalls of them (get_or_create_canonical,
\* add_alias, add_external_id for wikidata; every call commits before it returns)
WikidataId(name) ==
    IF Truthy(wd_cache) THEN lookup(normalize_label(JS(name)), wd_cache) ELSE None
WikidataAdded(reg, can_id, wdid) ==
    IF Truthy(wdid) THEN add_external_id(reg, can_id, "wikidata", wdid) ELSE reg
LinkGroupCalls(r, k, name, ncalls) ==
    IF ncalls = 1 THEN r.reg
    ELSE IF ncalls = 2 THEN add_alias(r.reg, r.ret, JS(name))
    ELSE WikidataAdded(add_alias(r.reg, r.ret, JS(name)), r.ret, WikidataId(name))
LinkGroupInterrupted(reg, k, members, ncalls) ==
    IF ncalls = 0 THEN reg
    ELSE LinkGroupCalls(get_or_create_canonical(reg, JS(k[1]), JS(k[2]),
                                                JS(DisplayName(members))),
                        k, DisplayName(members), ncalls)

\* a run of link_entities() that is interrupted (killed, or stopped by a fatal error)
\* in its document number docs + 1, after groups groups of it and ncalls registry
\* calls of the next group: the registry keeps what was committed, the output file
\* is that of the last document completed, no report is written
MaxLinkCrashes == 1
InterruptedGroups(reg, ents, keys, groups, ncalls) ==
    LinkGroupInterrupted(LinkGroups(reg, SubSeq(keys, 1, groups), ents).reg,
                         keys[groups + 1],
                         SelectSeq(ents, LAMBDA e : GroupKey(e) = keys[groups + 1]), ncalls)
InterruptedDone(reg, file) ==
    /\ entities' = reg.entities
    /\ aliases' = reg.aliases
    /\ external_ids' = reg.external_ids
    /\ linked_out' = file
InterruptedIn(r, ents, groups, ncalls) ==
    InterruptedDone(InterruptedGroups(r.reg, ents,
                        Distinct([i \in 1..Len(ents) |-> GroupKey(ents[i])]),
                        groups, ncalls),
                    r.file)
LinkInterrupted(order, docs, groups, ncalls) ==
    /\ Len(link_crashes) < MaxLinkCrashes
    /\ docs < Len(order)
    /\ groups < Cardinality({GroupKey(in_dir[order[docs + 1]][i]) :
                                i \in 1..Len(in_dir[order[docs + 1]])})
    /\ InterruptedIn(link_entities(Registry, in_dir, SubSeq(order, 1, docs), linked_out),
                     in_dir[order[docs + 1]], groups, ncalls)
    /\ link_crashes' = Append(link_crashes, order)
    /\ UNCHANGED <<in_dir, link_report, link_log, last_call, id_log, calls, promote_vars,
                   other_vars>>

(***************************************************************************)
(* Two processes, each with its own connection to one registry file opened  *)
(* by open_registry (journal_mode=WAL), call get_or_create_canonical.  The  *)
(* statements of a call are steps: the SELECT reads the committed rows; the *)
(* first INSERT opens the connection's write transaction, which takes the   *)
(* database's write lock and so waits while the other process holds it; the *)
(* inserted rows are visible to others after conn.commit().                 *)
(***************************************************************************)
Procs == {1, 2}
Idle == [pc |-> "idle"]

\* the arguments the processes call with: one pair in two spellings, and another type
RacePairs == { <<JS("org"), JS("ACME")>>, <<JS("ORG"), JS(" acme ")>>,
               <<JS("PERSON"), JS("Acme")>> }
RaceNames == {None, JS("Acme Corp"), JS("ACME")}

\* get_or_create_canonical(conn, ent_type, normalized_label, primary_name) is called
CallGetOrCreate(p, ent_type, label, primary_name) ==
    /\ proc[p].pc = "idle"
    /\ proc' = [proc EXCEPT ![p] =
                  [pc |-> "select", ent_type_u |-> Upper(Or(ent_type, JS("")).v),
                   norm |-> normalize_label(label), primary_name |-> primary_name,
                   inserts |-> FALSE, ret |-> None]]
    /\ UNCHANGED <<wlock, uncommitted, promote_vars, registry_vars, link_vars, coref_vars, write_vars, cli_vars>>

\* SELECT canonical_id FROM entities WHERE type=? AND normalized_label=?; return row[0]
Select(p) ==
    /\ proc[p].pc = "select"
    /\ LET found == {r \in entities : /\ r.type = proc[p].ent_type_u
                                      /\ r.normalized_label = proc[p].norm}
       IN  proc' = [proc EXCEPT ![p] =
                      IF found # {}
                      THEN [@ EXCEPT !.pc = "done",
                                     !.ret = JS((CHOOSE r \in found : TRUE).canonical_id)]
                      ELSE [@ EXCEPT !.pc = "insert"]]
    /\ UNCHANGED <<wlock, uncommitted, promote_vars, registry_vars, link_vars, coref_vars, write_vars, cli_vars>>

\* INSERT OR IGNORE INTO entities: the rows of the table as the transaction sees them
InsertEntityRow(p) ==
    /\ proc[p].pc = "insert"
    /\ wlock = 0
    /\ wlock' = p
    /\ uncommitted' =
         [entities |-> InsertOrIgnoreEntity(entities,
                          [canonical_id |-> deterministic_id(JS(proc[p].ent_type_u),
                                                             JS(proc[p].norm)),
                           type |-> proc[p].ent_type_u, normalized_label |-> proc[p].norm,
                           primary_name |-> proc[p].primary_name]),
          aliases |-> aliases]
    /\ proc' = [proc EXCEPT ![p].pc = "alias", ![p].inserts = TRUE]
    /\ UNCHANGED <<promote_vars, registry_vars, link_vars, coref_vars, write_vars, cli_vars>>

\* if primary_name: INSERT OR IGNORE INTO aliases
InsertAliasRow(p) ==
    /\ proc[p].pc = "alias"
    /\ uncommitted' =
         [uncommitted EXCEPT !.aliases =
            IF Truthy(proc[p].primary_name)
            THEN InsertOrIgnoreAlias(@,
                     [canonical_id |-> deterministic_id(JS(proc[p].ent_type_u),
                                                        JS(proc[p].norm)),
                      alias |-> proc[p].primary_name.v])
            ELSE @]
    /\ proc' = [proc EXCEPT ![p].pc = "commit"]
    /\ UNCHANGED <<wlock, promote_vars, registry_vars, link_vars, coref_vars, write_vars, cli_vars>>

\* conn.commit(); return can_id
Commit(p) ==
    /\ proc[p].pc = "commit"
    /\ entities' = uncommitted.entities
    /\ aliases' = uncommitted.aliases
    /\ wlock' = 0
    /\ uncommitted' = None
    /\ proc' = [proc EXCEPT ![p].pc = "done",
                            ![p].ret = JS(deterministic_id(JS(proc[p].ent_type_u),
                                                           JS(proc[p].norm)))]
    /\ UNCHANGED <<external_ids, last_call, id_log, calls, promote_vars, link_vars,
                   coref_vars, write_vars, cli_vars>>

(***************************************************************************)
(* The writing of the JSON-lines output files: _write_jsonl of               *)
(* combo/coref/cli.py, combo/link/linker.py and combo/pipeline/promote.py.  *)
(* Each opens the output path itself with mode 'w', which creates or        *)
(* truncates the file, and writes the rows one after the other; a crash     *)
(* (kill, power loss, exception) may end the process between any two steps. *)
(* A file is the list of the rows (lines) it holds.                         *)
(***************************************************************************)
MaxWrites == 2
OutputPaths == {"coref/d1.entities.jsonl", "link/linked.entities.jsonl",
                "facts/facts.relations.jsonl", "quarantine/relations.jsonl"}

\* the documents the coref stage writes, the directories the linker writes for, the
\* relation mentions the promotion stage writes for
CorefDocs ==
    { <<mk("d1", "c1", "Jane", 0, 0, JS("PERSON"), 0), mk("d1", "c1", "She", 1, 1, None, 1)>>,
      <<mk("d1", "c1", "prototype drone", 0, 0, None, 0), mk("d1", "c1", "It", 1, 1, None, 1),
        mk("d1", "c1", "glass", 2, 2, JS("PRODUCT"), 1)>> }
PromoteRels ==
    { <<Rel("r1", "AT_TRL", "tech:a", "trl:8", "d1", JI(1), 4200, D(<< <<"value", JI(8)>> >>)),
        Rel("r2", "AT_TRL", "tech:a", "trl:8", "d1", JI(2), 5400, JD(<<>>))>>,
      <<Rel("r5", "BOGUS", "tech:b", "org:q", "d1", JI(1), 5400, JD(<<>>)),
        Rel("r6", "AT_TRL", "trl:8", "trl:8", "d1", JI(2), 5400, JD(<<>>))>> }
PromoteOut(rels) == promote(<<>>, rels, <<TechA, TechANoName, Trl8>>, SchemaDoc, None, JI(1), 0)

\* the _write_jsonl calls of the three stages: the path and the rows in the order written
WriteCalls ==
    {[path |-> "coref/d1.entities.jsonl", rows |-> process_er_file(d, 3, 30)] :
        d \in CorefDocs}
    \cup {[path |-> "link/linked.entities.jsonl",
           rows |-> link_entities(EmptyRegistry, ("a" :> f), <<"a">>, None).file.v] :
            f \in EntityFiles \ {<<>>}}
    \cup {[path |-> "facts/facts.relations.jsonl", rows |-> PromoteOut(r).facts_relations] :
            r \in PromoteRels}
    \cup {[path |-> "quarantine/relations.jsonl", rows |-> PromoteOut(r).q_relations] :
            r \in PromoteRels}

\* with open(path, 'w') as f: the file at the output path is created or truncated
OpenOutput(path, rows) ==
    /\ writer = None
    /\ writes < MaxWrites
    /\ writer' = [t |-> "open", path |-> path, rows |-> rows, before |-> disk[path]]
    /\ disk' = [disk EXCEPT ![path] = JL(<<>>)]
    /\ crash' = None
    /\ writes' = writes + 1
    /\ UNCHANGED <<promote_vars, registry_vars, link_vars, coref_vars, race_vars, cli_vars>>

\* f.write(json.dumps(r)); f.write('\n'): the next row reaches the file
WriteRow ==
    /\ writer # None
    /\ Len(disk[writer.path].v) < Len(writer.rows)
    /\ disk' = [disk EXCEPT ![writer.path] =
                  JL(Append(@.v, writer.rows[Len(@.v) + 1]))]
    /\ UNCHANGED <<writer, crash, writes, promote_vars, registry_vars, link_vars,
                   coref_vars, race_vars, cli_vars>>

\* the with block ends after the last row: the file is closed
CloseOutput ==
    /\ writer # None
    /\ Len(disk[writer.path].v) = Len(writer.rows)
    /\ writer' = None
    /\ UNCHANGED <<disk, crash, writes, promote_vars, registry_vars, link_vars,
                   coref_vars, race_vars, cli_vars>>

\* the process dies while the file is open: the file stays as it is
CrashInWrite ==
    /\ writer # None
    /\ crash' = [writer EXCEPT !.t = "crash"]
    /\ writer' = None
    /\ UNCHANGED <<disk, writes, promote_vars, registry_vars, link_vars, coref_vars,
                   race_vars, cli_vars>>

(***************************************************************************)
(* The command-line entry points (combo/pipeline/promote.py main,          *)
(* combo/link/linker.py main).  A file is absent, well-formed ("ok") or    *)
(* holds text that does not parse ("malformed"); an output directory is    *)
(* absent, holds its sub-directories only ("dirs"), or holds the files of  *)
(* a completed run ("written").  The --doctor branch of promote is not     *)
(* modelled.                                                               *)
(***************************************************************************)
FileStates == {"absent", "ok", "malformed"}
\* the registry path: no file yet, a registry file, or a path in a missing directory
RegistryStates == {"absent", "file", "nodir"}
CliFiles ==
    [schema : FileStates, ents : FileStates, rels : {"absent", "ok"}, linked : FileStates,
     input_dir : FileStates, registry : RegistryStates, out : {"absent"},
     link_out : {"absent"}]
\* the arguments of an invocation: how many positionals, which required options
PromoteArgs == [positionals : {2, 3}, schema : BOOLEAN, out : BOOLEAN]
LinkArgs    == [positionals : {0, 1}, registry : BOOLEAN, out : BOOLEAN]
\* ap.parse_args(argv): argparse ends the process with status 2 when a positional or
\* a required option is missing
ParsesPromote(args) == args.positionals = 3 /\ args.schema /\ args.out
ParsesLink(args)    == args.positionals = 1 /\ args.registry /\ args.out
\* os.makedirs(out_dir, exist_ok=True) and the sub-directories
MakeDirs(state) == IF state = "absent" THEN "dirs" ELSE state
\* promote() raises on an input it cannot open or parse
PromoteRaises(fs) == fs.linked # "ok" \/ fs.ents # "ok" \/ fs.rels # "ok"
\* link_entities() raises when sqlite cannot open the registry, os.listdir fails or a
\* line of an entities file does not parse
LinkRaises(fs) == fs.registry = "nodir" \/ fs.input_dir # "ok"

\* combo promote: main(argv)
PromoteMain(args) ==
    /\ cli_last' = [cmd |-> "promote", args |-> args,
                    code |-> IF ~ParsesPromote(args) THEN 2
                             ELSE IF cli_fs.schema # "ok" \/ PromoteRaises(cli_fs) THEN 1
                             ELSE 0]
    /\ cli_fs' = IF ~ParsesPromote(args) \/ cli_fs.schema # "ok" THEN cli_fs
                 ELSE IF PromoteRaises(cli_fs)
                      THEN [cli_fs EXCEPT !.out = MakeDirs(cli_fs.out)]
                 ELSE [cli_fs EXCEPT !.out = "written"]
    /\ UNCHANGED <<promote_vars, registry_vars, link_vars, coref_vars, race_vars, write_vars>>

\* combo link: main(argv)
LinkMain(args) ==
    /\ cli_last' = [cmd |-> "link", args |-> args,
                    code |-> IF ~ParsesLink(args) THEN 2
                             ELSE IF LinkRaises(cli_fs) THEN 1
                             ELSE 0]
    /\ cli_fs' = IF ~ParsesLink(args) THEN cli_fs
                 ELSE IF cli_fs.registry = "nodir"
                      THEN [cli_fs EXCEPT !.link_out = MakeDirs(cli_fs.link_out)]
                 ELSE IF LinkRaises(cli_fs)
                      THEN [cli_fs EXCEPT !.link_out = MakeDirs(cli_fs.link_out),
                                          !.registry = "file"]
                 ELSE [cli_fs EXCEPT !.link_out = "written", !.registry = "file"]
    /\ UNCHANGED <<promote_vars, registry_vars, link_vars, coref_vars, race_vars, write_vars>>

\* the variables of the components a specification leaves idle
PromoteIdle ==
    /\ ent_mentions = <<>> /\ rel_mentions = <<>> /\ linked = <<>>
    /\ min_ev = 0 /\ out = None /\ runs = 0
RegistryIdle ==
    /\ entities = {} /\ aliases = {} /\ external_ids = {}
    /\ last_call = [op |-> "none"] /\ id_log = {} /\ calls = 0
LinkIdle ==
    /\ in_dir = <<>> /\ linked_out = None /\ link_report = None /\ link_log = <<>>
    /\ link_crashes = <<>>
CorefIdle ==
    /\ coref_in = <<>> /\ coref_out = None /\ coref_call = [op |-> "none"]
RaceIdle ==
    /\ proc = [p \in Procs |-> Idle] /\ wlock = 0 /\ uncommitted = None
WriteIdle ==
    /\ disk = [p \in OutputPaths |-> None] /\ writer = None /\ crash = None /\ writes = 0
IdleFiles ==
    [schema |-> "absent", ents |-> "absent", rels |-> "absent", linked |-> "absent",
     input_dir |-> "absent", registry |-> "absent", out |-> "absent",
     link_out |-> "absent"]
CliIdle == cli_fs = IdleFiles /\ cli_last = None
OtherIdle == CorefIdle /\ RaceIdle /\ WriteIdle /\ CliIdle

\* init_schema on a new file: the three tables, empty
RegistryInit == RegistryIdle /\ PromoteIdle /\ LinkIdle /\ OtherIdle

\* the promotion engine: empty mention files, one of the linked files, a threshold
Init ==
    /\ ent_mentions = <<>> /\ rel_mentions = <<>>
    /\ linked \in LinkedFiles
    /\ min_ev \in MinEvChoices
    /\ out = None /\ runs = 0
    /\ RegistryIdle /\ LinkIdle /\ OtherIdle

Next ==
    \/ \E m \in RelPool : WriteRelMention(m)
    \/ \E m \in EntPool : WriteEntMention(m)
    \/ \E h \in 0..(HashSeeds - 1) : Promote(h)

Spec == Init /\ [][Next]_vars

\* the promotion engine on the inputs that try the entity and label gates
GateInit ==
    /\ ent_mentions = <<>> /\ rel_mentions = <<>>
    /\ linked \in GateLinkedFiles
    /\ min_ev \in MinEvChoices
    /\ out = None /\ runs = 0
    /\ RegistryIdle /\ LinkIdle /\ OtherIdle

GateNext ==
    \/ \E m \in GateRelPool : WriteRelMention(m)
    \/ \E m \in GateEntPool : WriteEntMention(m)
    \/ \E h \in 0..(HashSeeds - 1) : Promote(h)

GateSpec == GateInit /\ [][GateNext]_vars

RegistryNext ==
    \/ \E p \in RegPairs, n \in RegNames : GetOrCreateCanonical(p[1], p[2], n)
    \/ \E c \in RegIds, a \in RegAliases : AddAlias(c, a)
    \/ \E c \in RegIds, s \in RegSources, x \in RegExtIds : AddExternalId(c, s, x)

RegistrySpec == RegistryInit /\ [][RegistryNext]_vars

\* the linker: an empty input directory, no output file, an empty registry
LinkInit == RegistryIdle /\ PromoteIdle /\ LinkIdle /\ OtherIdle

LinkNext ==
    \/ \E base \in FileNames, ents \in EntityFiles : WriteEntitiesFile(base, ents)
    \/ \E order \in ListDirOrders(in_dir) : LinkEntities(order)
    \/ \E order \in ListDirOrders(in_dir), docs \in 0..(MaxFiles - 1), groups \in 0..1,
          n \in 0..3 : LinkInterrupted(order, docs, groups, n)

LinkSpec == LinkInit /\ [][LinkNext]_vars

\* the coreference resolver: an empty document
CorefInit == RegistryIdle /\ PromoteIdle /\ LinkIdle /\ OtherIdle

CorefNext ==
    \/ \E m \in MentionsAt(Len(coref_in)) : ReadMention(m)
    \/ \E w \in CorefWindows : ResolveCoref(w[1], w[2])
    \/ ProcessErFile

CorefSpec == CorefInit /\ [][CorefNext]_vars

\* the two processes on a new registry file
RaceInit == RegistryIdle /\ PromoteIdle /\ LinkIdle /\ OtherIdle

RaceNext ==
    \/ \E p \in Procs, a \in RacePairs, n \in RaceNames : CallGetOrCreate(p, a[1], a[2], n)
    \/ \E p \in Procs : Select(p)
    \/ \E p \in Procs : InsertEntityRow(p)
    \/ \E p \in Procs : InsertAliasRow(p)
    \/ \E p \in Procs : Commit(p)

RaceSpec == RaceInit /\ [][RaceNext]_vars

\* the output files: none exists
WriteInit == RegistryIdle /\ PromoteIdle /\ LinkIdle /\ OtherIdle

WriteNext ==
    \/ \E c \in WriteCalls : OpenOutput(c.path, c.rows)
    \/ WriteRow
    \/ CloseOutput
    \/ CrashInWrite

WriteSpec == WriteInit /\ [][WriteNext]_vars

\* the commands on every combination of present, absent and malformed inputs
CliInit ==
    /\ RegistryIdle /\ PromoteIdle /\ LinkIdle /\ CorefIdle /\ RaceIdle /\ WriteIdle
    /\ cli_fs \in CliFiles /\ cli_last = None

CliNext ==
    \/ \E args \in PromoteArgs : PromoteMain(args)
    \/ \E args \in LinkArgs : LinkMain(args)

CliSpec == CliInit /\ [][CliNext]_vars

(***************************************************************************)
(* Properties of the promotion engine (under Spec).  They read the files    *)
(* and the report of the last run, and the inputs the run was given.        *)
(***************************************************************************)
\* the relation groups of the input: keys, and each key's mentions
Groups == bucket_relations(rel_mentions)
\* the group a relation row (a fact or a quarantine record) stands for
RowKey(row) ==
    <<Get(Get(row, "subj"), "canonical_id"), Get(row, "predicate"),
      Get(Get(row, "obj"), "canonical_id")>>
\* how many rows of a file stand for the group k
RowsFor(rows, k) == Cardinality({i \in 1..Len(rows) : RowKey(rows[i]) = k})
Counts(name) == Get(Get(out.report, "counts"), name).v

\* C1: every relation group has exactly one row in facts.relations and
\* quarantine/relations taken together, no row stands for anything but a group, and
\* the report's promoted_relations + quarantined_relations equals relation_groups.
C1_RelationGroupsPartitioned ==
    runs > 0 =>
        /\ \A k \in Groups.keys :
              RowsFor(out.facts_relations, k) + RowsFor(out.q_relations, k) = 1
        /\ \A row \in Range(out.facts_relations) \cup Range(out.q_relations) :
              RowKey(row) \in Groups.keys
        /\ Counts("promoted_relations") + Counts("quarantined_relations")
              = Counts("relation_groups")
        /\ Counts("relation_groups") = Cardinality(Groups.keys)

\* a run that promoted one group and quarantined another
C1_Witness ==
    /\ runs > 0
    /\ Len(out.facts_relations) >= 1
    /\ Len(out.q_relations) >= 1

\* the canonical ids of the rows of an entity file
EntityIdsIn(rows) == {Get(rows[i], "canonical_id") : i \in 1..Len(rows)}
\* how many rows of the two entity files carry the canonical id cid
EntityRowsFor(cid) ==
    Cardinality({i \in 1..Len(out.facts_entities) :
                    Get(out.facts_entities[i], "canonical_id") = cid})
    + Cardinality({i \in 1..Len(out.q_entities) :
                    Get(out.q_entities[i], "canonical_id") = cid})
TruthyIds(S) == {x \in S : Truthy(x)}
\* every canonical id of the linked table, of an entity mention or of a relation mention
AllCanonicalIds ==
    TruthyIds({Get(linked[i], "canonical_id") : i \in 1..Len(linked)}
              \cup {Get(ent_mentions[i], "canonical_id") : i \in 1..Len(ent_mentions)}
              \cup {Get(rel_mentions[i], "subj_canonical_id") : i \in 1..Len(rel_mentions)}
              \cup {Get(rel_mentions[i], "obj_canonical_id") : i \in 1..Len(rel_mentions)})
\* the distinct sentences of the entity mentions of cid whose sent_id is truthy
StandaloneEvidence(cid) ==
    Cardinality({Get(ent_mentions[i], "sent_id") :
                    i \in {j \in 1..Len(ent_mentions) :
                              /\ Get(ent_mentions[j], "canonical_id") = cid
                              /\ Truthy(Get(ent_mentions[j], "sent_id"))}})
\* the ids promote() evaluates: the subjects and objects of the promoted relations and
\* the ids whose standalone evidence reaches min_evidence
EvaluatedIds ==
    {RowKey(row)[1] : row \in Range(out.facts_relations)}
    \cup {RowKey(row)[3] : row \in Range(out.facts_relations)}
    \cup {cid \in AllCanonicalIds : StandaloneEvidence(cid) >= min_ev}

RunConfThr == Get(Get(SchemaDoc, "promotion"), "conf_thr").v
AvgConfidence(row) == Get(Get(row, "evidence"), "avg_confidence").v
EvCount(row) == Get(Get(row, "evidence"), "ev_count").v
ReasonsOf(row) == Get(row, "reasons").v

\* C6: a quarantine record of a relation group lists below_threshold if and only if
\* avg_confidence < conf_thr or ev_count < min_evidence, and no promoted group has
\* avg_confidence < conf_thr or ev_count < min_evidence.
C6_ThresholdGate ==
    runs > 0 =>
        /\ \A row \in Range(out.q_relations) :
              (JS("below_threshold") \in Range(ReasonsOf(row)))
                  <=> (AvgConfidence(row) < RunConfThr \/ EvCount(row) < min_ev)
        /\ \A row \in Range(out.facts_relations) :
              ~(AvgConfidence(row) < RunConfThr \/ EvCount(row) < min_ev)

\* a group whose confidence passes and whose evidence count does not, quarantined
\* with below_threshold
C6_Witness ==
    /\ runs > 0
    /\ \E row \in Range(out.q_relations) :
          /\ AvgConfidence(row) >= RunConfThr
          /\ EvCount(row) < min_ev
          /\ JS("below_threshold") \in Range(ReasonsOf(row))

\* the distinct sentence ids among the mentions of the group k
DistinctSentences(k) ==
    Cardinality({Get(Groups.group[k][i], "sent_id") : i \in 1..Len(Groups.group[k])})

\* C7 (as stated): the ev_count of every relation group is the number of distinct
\* sentence ids among its mentions, the sentence id 0 included.
C7_EvCountDistinctSentences ==
    runs > 0 =>
        \A row \in Range(out.facts_relations) \cup Range(out.q_relations) :
            EvCount(row) = DistinctSentences(RowKey(row))

\* the reason codes the gates append for the group of a row, in the order of the gates
Triggered(row) ==
    RelReasons(RowKey(row), Groups.group[RowKey(row)], Get(row, "evidence"),
               CanonIdx(linked), SchemaDoc, RunConfThr, min_ev)
StrictlyAscending(xs) == \A i \in 1..(Len(xs) - 1) : StrLess(xs[i].v, xs[i + 1].v)

\* C8: a relation group is promoted exactly when no gate triggers; the reasons of a
\* quarantine record are all the reason codes that triggered, in strictly ascending
\* order (so sorted and without duplicates).
C8_AllTriggeredReasons ==
    runs > 0 =>
        /\ \A row \in Range(out.facts_relations) : Triggered(row) = <<>>
        /\ \A row \in Range(out.q_relations) :
              /\ Triggered(row) # <<>>
              /\ Range(ReasonsOf(row)) = {JS(code) : code \in Range(Triggered(row))}
              /\ StrictlyAscending(ReasonsOf(row))

\* a quarantine record of a group for which one gate code triggered twice and three
\* distinct codes triggered
C8_Witness ==
    /\ runs > 0
    /\ \E row \in Range(out.q_relations) :
          /\ Len(Triggered(row)) > Len(ReasonsOf(row))
          /\ Len(ReasonsOf(row)) >= 3

\* the four files of a run
Files(o) == <<o.facts_entities, o.facts_relations, o.q_entities, o.q_relations>>
\* the rows of a file are in the order of their sorted-keys JSON serialization
SortedByJson(rows) ==
    \A i \in 1..(Len(rows) - 1) : ~StrLess(Dumps(rows[i + 1]), Dumps(rows[i]))

\* C10: a further run of promote() on the same inputs, under any hash seed, writes
\* the same four files as the run before it, and the rows of each file are in the
\* order of their sorted-keys JSON serialization.
C10_PromoteDeterministic ==
    /\ [](runs > 0 => \A i \in 1..4 : SortedByJson(Files(out)[i]))
    /\ [][(runs > 0 /\ runs' = runs + 1) => Files(out)' = Files(out)]_vars

\* two runs made, and a file with two rows
C10_Witness ==
    /\ runs = 2
    /\ Len(out.q_relations) >= 2

(***************************************************************************)
(* Properties of the identity registry (under RegistrySpec).               *)
(***************************************************************************)
\* upper(type) and trim+lowercase(label) of the arguments of a call
NormalizedPair(type, label) ==
    <<Upper(Or(type, JS("")).v), Lower(Strip(Or(label, JS("")).v))>>
\* the name that is hashed: "combo://entity/" + upper(type) + "|" + normalized label
CanonicalName(type, label) ==
    "combo://entity/" \o NormalizedPair(type, label)[1] \o "|" \o NormalizedPair(type, label)[2]
ReturnsHashOfName ==
    \A c \in id_log : c.ret = uuid5(CanonicalName(c.type, c.label))
RowsCarryHashOfName ==
    \A r \in entities : r.canonical_id = uuid5(CanonicalName(JS(r.type), JS(r.normalized_label)))

\* C3 (as stated): every call returns the hash of its normalized pair, two calls
\* return the same id if and only if their normalized (type, label) pairs are equal,
\* and every stored row carries the id of its own pair.
C3_IdsDistinguishPairs ==
    /\ ReturnsHashOfName
    /\ \A a, b \in id_log :
          (NormalizedPair(a.type, a.label) = NormalizedPair(b.type, b.label)) <=> (a.ret = b.ret)
    /\ RowsCarryHashOfName

\* C3 (amended): every call returns the hash of upper(type) + "|" + normalized label,
\* two calls return the same id if and only if these joined names are equal (equal
\* pairs always, differing pairs only when the joined names coincide), and every
\* stored row carries the id of its own pair.
C3_IdsDistinguishJoinedNames ==
    /\ ReturnsHashOfName
    /\ \A a, b \in id_log :
          /\ (NormalizedPair(a.type, a.label) = NormalizedPair(b.type, b.label)) => (a.ret = b.ret)
          /\ (CanonicalName(a.type, a.label) = CanonicalName(b.type, b.label)) <=> (a.ret = b.ret)
    /\ RowsCarryHashOfName

\* two calls with different spellings of one pair that returned one id, a call that
\* returned another id, and a stored row
C3_Witness ==
    /\ entities # {}
    /\ \E a, b, c \in id_log :
          /\ a.label # b.label
          /\ NormalizedPair(a.type, a.label) = NormalizedPair(b.type, b.label)
          /\ a.ret = b.ret
          /\ c.ret # a.ret

\* the stored rows of the pair a get_or_create_canonical call names
StoredFor(type, label) ==
    {r \in entities : <<r.type, r.normalized_label>> = NormalizedPair(type, label)}

\* C4: entities never holds two rows with one (type, normalized_label) or with one
\* canonical_id; a get_or_create_canonical call for a stored pair returns the stored
\* id and leaves entities unchanged.
C4_NoDuplicateEntities ==
    /\ [](\A r1, r2 \in entities :
              (\/ <<r1.type, r1.normalized_label>> = <<r2.type, r2.normalized_label>>
               \/ r1.canonical_id = r2.canonical_id) => r1 = r2)
    /\ [][(/\ calls' = calls + 1
           /\ last_call'.op = "get_or_create_canonical"
           /\ StoredFor(last_call'.type, last_call'.label) # {})
          => /\ entities' = entities
             /\ \E r \in StoredFor(last_call'.type, last_call'.label) :
                   last_call'.ret = r.canonical_id]_vars

\* a call, spelled differently from an earlier one, that found its pair stored
C4_Witness ==
    /\ last_call.op = "get_or_create_canonical"
    /\ Cardinality(entities) = 1
    /\ \E a \in id_log :
          /\ <<a.type, a.label>> # <<last_call.type, last_call.label>>
          /\ NormalizedPair(a.type, a.label) = NormalizedPair(last_call.type, last_call.label)
          /\ a.ret = last_call.ret

\* the stored rows of the (source, external_id) an add_external_id call names
ClaimedBy(call) ==
    {r \in external_ids : r.source = call.source /\ r.external_id = call.external_id.v}

\* C5: external_ids never holds two rows with one (source, external_id); an
\* add_external_id call for a stored pair changes no table, so the stored row keeps
\* its canonical_id; a call with an empty external_id changes no table.
C5_ExternalIdsUnique ==
    /\ [](\A r1, r2 \in external_ids :
              (r1.source = r2.source /\ r1.external_id = r2.external_id) => r1 = r2)
    /\ [][(/\ calls' = calls + 1
           /\ last_call'.op = "add_external_id"
           /\ (~Truthy(last_call'.external_id) \/ ClaimedBy(last_call') # {}))
          => <<entities, aliases, external_ids>>' = <<entities, aliases, external_ids>>]_vars

\* a call by a second canonical entity for a pair the first one holds
C5_Witness ==
    /\ last_call.op = "add_external_id"
    /\ Truthy(last_call.external_id)
    /\ \E r \in ClaimedBy(last_call) : r.canonical_id # last_call.canonical_id

(***************************************************************************)
(* Properties of the linker (under LinkSpec).                              *)
(***************************************************************************)
\* C9 (as stated): all runs of link_entities over the input directory write the same
\* linked.entities.jsonl, whatever the order in which the directory's files are
\* enumerated and whatever the registry holds.
C9_LinkRunsIdentical ==
    \A i, j \in 1..Len(link_log) : link_log[i].file = link_log[j].file

\* the rows of linked.entities.jsonl (none while the file does not exist)
LinkedRows == IF linked_out.t = "null" THEN <<>> ELSE linked_out.v
\* the (type, key) groups of one entities file, and the mentions of a group
FileGroups(ents) == Range([i \in 1..Len(ents) |-> GroupKey(ents[i])])
GroupMembers(ents, k) == SelectSeq(ents, LAMBDA e : GroupKey(e) = k)
\* the rows of the output file that stand for group k of an entities file
RowsOfGroup(ents, k) ==
    {i \in 1..Len(LinkedRows) :
        /\ Get(LinkedRows[i], "type").v = k[1]
        /\ Get(LinkedRows[i], "doc_id") = Get(GroupMembers(ents, k)[1], "doc_id")
        /\ Get(LinkedRows[i], "mention_ids")
             = JL(Strs(SortedStrs(MentionIds(GroupMembers(ents, k)))))}

\* C11 (as stated): after a run of link_entities, linked.entities.jsonl holds exactly
\* one row for every (type, key) group of every file of the input directory, and the
\* report's entities count is the number of rows of the file.
C11_OneRowPerGroupOfEveryFile ==
    link_log # <<>> =>
        /\ \A b \in DOMAIN in_dir : \A k \in FileGroups(in_dir[b]) :
               Cardinality(RowsOfGroup(in_dir[b], k)) = 1
        /\ Get(link_report, "entities").v = Len(LinkedRows)

\* C12 (as stated): the canonical_id of every row of linked.entities.jsonl is the
\* registry's id of (type, display name of the group), and the display name is
\* stored as an alias of that canonical_id.
C12_CanonicalIdOfDisplayName ==
    \A i \in 1..Len(LinkedRows) :
        /\ Get(LinkedRows[i], "canonical_id").v
             = get_or_create_canonical(Registry, Get(LinkedRows[i], "type"),
                                       Get(LinkedRows[i], "name"), None).ret
        /\ [canonical_id |-> Get(LinkedRows[i], "canonical_id").v,
            alias |-> Get(LinkedRows[i], "name").v] \in aliases

(***************************************************************************)
(* Properties of the coreference resolver (under CorefSpec).               *)
(***************************************************************************)
\* the mentions returned by the last call
Resolved == IF coref_out.t = "null" THEN <<>> ELSE coref_out.v
\* the positions of the pronouns that got an antecedent
Linked == {i \in 1..Len(Resolved) : Truthy(Get(Resolved[i], "antecedent_mention_id"))}
\* the rows the linker writes for the resolver's output file, from an empty registry
LinkedCoref == link_entities(EmptyRegistry, ("d1" :> Resolved), <<"d1">>, None).file.v

\* C13 (as stated): a pronoun that the resolver links to an antecedent is placed by the
\* linker, run on the resolver's output, in the group of the antecedent: one row
\* lists the mention ids of both.
C13_PronounInGroupOfAntecedent ==
    \A i \in Linked :
        \E r \in 1..Len(LinkedCoref) :
            {Get(Resolved[i], "mention_id"), Get(Resolved[i], "antecedent_mention_id")}
                \subseteq Range(Get(LinkedCoref[r], "mention_ids").v)

\* the pronouns of the output, the form and number of a pronoun, the gender of a mention
Pronouns == {i \in 1..Len(Resolved) : Truthy(Get(Resolved[i], "is_pronoun"))}
Form(i) == Lower(Or(Get(Resolved[i], "pronoun_form"), JS("")).v)
Number(i) == Get(Resolved[i], "number").v
Gender(j) == Get(Resolved[j], "gender").v
\* the window of the pronoun at position i: the earlier mentions at most max_sent_back
\* sentences away, the max_mentions_back nearest of them
NearBy(i) ==
    {j \in 1..(i - 1) :
        Abs(Get(Resolved[i], "sent_id").v - Get(Resolved[j], "sent_id").v)
            <= coref_call.max_sent_back}
Window(i) ==
    {j \in NearBy(i) : Cardinality({k \in NearBy(i) : k > j}) < coref_call.max_mentions_back}
\* the position of the antecedent of a linked pronoun
Antecedent(i) ==
    CHOOSE j \in 1..Len(Resolved) :
        Get(Resolved[j], "mention_id") = Get(Resolved[i], "antecedent_mention_id")
\* the estimated number of the candidate at j agrees with the number of pronoun i
NumberAgrees(i, j) ==
    Number(i) \in {"singular", "plural"}
        => _estimate_number_for_candidate(Resolved[j]) = Number(i)
\* the texts of the document resolved
Texts == [i \in 1..Len(coref_in) |-> Get(coref_in[i], "text").v]

\* C17: he/him is never resolved to a candidate of gender fem, she/her never to one of
\* gender masc; a candidate of unknown gender is compatible with both, so a gendered
\* pronoun with such a candidate (of agreeing number) in its window is resolved, to
\* it or to a nearer candidate; in [Jane, Bob, She, him] She resolves to Jane, him to Bob.
C17_GenderAgreement ==
    /\ \A i \in Linked :
          /\ Form(i) \in {"he", "him"} => Gender(Antecedent(i)) # "fem"
          /\ Form(i) \in {"she", "her"} => Gender(Antecedent(i)) # "masc"
    /\ \A i \in Pronouns : \A j \in Window(i) :
          (/\ Form(i) \in {"he", "him", "she", "her"}
           /\ Gender(j) = "unknown" /\ NumberAgrees(i, j))
          => (i \in Linked /\ Antecedent(i) >= j)
    /\ (/\ Texts = <<"Jane", "Bob", "She", "him">>
        /\ coref_call.op # "none" /\ coref_call.max_sent_back = 3)
          => /\ Linked = {3, 4}
             /\ Antecedent(3) = 1 /\ Antecedent(4) = 2

\* the document of the test, resolved: She and him have their antecedents
C17_Witness ==
    /\ Texts = <<"Jane", "Bob", "She", "him">>
    /\ coref_call.op # "none" /\ coref_call.max_sent_back = 3
    /\ Linked = {3, 4}

\* the type of the mention at j; the mention is device-like
TypeOf(j) == Upper(Or(Get(Resolved[j], "type"), JS("")).v)
DeviceLike(j) ==
    \/ TypeOf(j) \in {"PRODUCT", "DEVICE"}
    \/ \E w \in {"drone", "system", "device", "battery", "pack", "railgun", "prototype"} :
          Contains(Lower(Get(Resolved[j], "text").v), w)
\* the agreement-compatible device-like candidates in the window of the pronoun at i
DeviceCandidates(i) == {j \in Window(i) : NumberAgrees(i, j) /\ DeviceLike(j)}

\* C18: a pronoun it/this/that with an agreement-compatible device-like candidate in
\* its window is resolved to the nearest such candidate, also when a compatible ORG
\* candidate is nearer, with rule prefer_device_over_org and confidence 0.85.
C18_DevicePreferred ==
    \A i \in Pronouns :
        (Form(i) \in {"it", "this", "that"} /\ DeviceCandidates(i) # {})
        => /\ i \in Linked
           /\ Antecedent(i) \in DeviceCandidates(i)
           /\ \A j \in DeviceCandidates(i) : j <= Antecedent(i)
           /\ Get(Resolved[i], "coref_rule") = JS("prefer_device_over_org")
           /\ Get(Resolved[i], "coref_conf") = JF(5100)

\* 'It' resolved to a device-like mention past a nearer, compatible organisation
C18_Witness ==
    \E i \in Linked :
        /\ Form(i) = "it"
        /\ Get(Resolved[i], "coref_rule") = JS("prefer_device_over_org")
        /\ \E j \in Window(i) : j > Antecedent(i) /\ TypeOf(j) = "ORG" /\ NumberAgrees(i, j)

\* the candidate at j is plural by the rule as stated: not of type ORG, and its text
\* ends in an "s" that is not part of a trailing "ss"
StatedPlural(j) ==
    /\ TypeOf(j) # "ORG"
    /\ EndsWith(Strip(Get(Resolved[j], "text").v), "s")
    /\ ~EndsWith(Strip(Get(Resolved[j], "text").v), "ss")

\* C19 (as stated): a plural pronoun is resolved only to a candidate that is plural by
\* the stated rule, a singular pronoun only to one that is not; 'They' after
\* 'battery packs' resolves to 'battery packs'.
C19_NumberAgreement ==
    /\ \A i \in Linked :
          /\ Number(i) = "plural" => StatedPlural(Antecedent(i))
          /\ Number(i) = "singular" => ~StatedPlural(Antecedent(i))
    /\ (/\ Texts = <<"battery packs", "They">>
        /\ coref_call.op # "none" /\ coref_call.max_sent_back = 3)
          => (Linked = {2} /\ Antecedent(2) = 1)

\* C20 (as stated): resolve_coref only adds fields: the list it returns has the length
\* and order of its input, and every field present in an input record, the upstream
\* resolved_entity_id, antecedent_mention_id, coref_rule and coref_conf included, has
\* its input value in the output record.
C20_OnlyAddsFields ==
    coref_call.op = "resolve_coref" =>
        /\ Len(Resolved) = Len(coref_in)
        /\ \A i \in 1..Len(coref_in) : \A k \in DOMAIN coref_in[i].v :
               Get(Resolved[i], k) = coref_in[i].v[k]

\* the registry a complete run over the input directory leaves when it starts from an
\* empty registry and enumerates the files in the given order
FreshRunRegistry(order) == link_entities(EmptyRegistry, in_dir, order, None).reg

\* C14 (as stated): from any registry state left by complete or interrupted runs over
\* the input directory, a complete run ends in the registry state of a complete run
\* from an empty registry; once a run has completed, a further run changes no row.
C14_RunsConverge ==
    /\ [](link_log # <<>> => Registry = FreshRunRegistry(link_log[Len(link_log)].order))
    /\ [][link_log # <<>> => Registry' = Registry]_vars

(***************************************************************************)
(* Properties of concurrent registry calls (under RaceSpec).               *)
(***************************************************************************)
\* the rows of entities for the pair a process asked for
RowsForCall(p) ==
    {r \in entities : r.type = proc[p].ent_type_u /\ r.normalized_label = proc[p].norm}
\* both calls have returned, and they were for one normalized pair
BothReturned ==
    /\ \A p \in Procs : proc[p].pc = "done"
    /\ proc[1].ent_type_u = proc[2].ent_type_u /\ proc[1].norm = proc[2].norm

\* C15: two processes that call get_or_create_canonical for the same
\* (type, normalized_label), their statements interleaved in any order, return the
\* same canonical_id, and entities ends with exactly one row for the pair.
C15_ConcurrentCallsAgree ==
    BothReturned => /\ proc[1].ret = proc[2].ret
                    /\ Cardinality(RowsForCall(1)) = 1

\* both calls found no row and both went on to insert, with different primary names
C15_Witness ==
    /\ BothReturned
    /\ proc[1].inserts /\ proc[2].inserts
    /\ proc[1].primary_name # proc[2].primary_name

(***************************************************************************)
(* Properties of the output files (under WriteSpec).                       *)
(***************************************************************************)
\* C16 (as stated): after a crash during the write of an output file of the coref,
\* linker or promotion stage, the file at the final path is either as it was before
\* the write or holds all the rows of the write, never a part of them.
C16_NoPartialFileAfterCrash ==
    crash # None => disk[crash.path] \in {crash.before, JL(crash.rows)}

(***************************************************************************)
(* Further properties of the promotion engine (under Spec).                *)
(***************************************************************************)
\* the mentions that contribute to the entity cid: its entity mentions and the
\* relation mentions it is the subject or the object of
MentionsOfEntity(cid) ==
    SelectSeq(ent_mentions, LAMBDA m : Get(m, "canonical_id") = cid)
    \o SelectSeq(rel_mentions, LAMBDA m : cid \in {Get(m, "subj_canonical_id"),
                                                   Get(m, "obj_canonical_id")})
\* the record carries a non-empty list of reasons
CarriesReasons(row) ==
    /\ Has(row, "reasons")
    /\ Get(row, "reasons").t = "list"
    /\ Get(row, "reasons").v # <<>>
\* the record carries a list of at most 3 examples, each the doc_id and sent_id of one
\* of the given mentions
CarriesExamples(row, mentions) ==
    /\ Has(row, "examples")
    /\ Get(row, "examples").t = "list"
    /\ Len(Get(row, "examples").v) <= 3
    /\ \A ex \in Range(Get(row, "examples").v) :
          \E m \in Range(mentions) :
              ex = D(<< <<"doc_id", Get(m, "doc_id")>>, <<"sent_id", Get(m, "sent_id")>> >>)

\* C21 (as stated): every record of quarantine/relations and of quarantine/entities
\* carries a non-empty reasons list and an examples list of at most 3 entries, each
\* the doc_id and sent_id of a mention that contributes to the record.
C21_QuarantineRecordsCarryExamples ==
    runs > 0 =>
        /\ \A row \in Range(out.q_relations) :
              /\ CarriesReasons(row)
              /\ CarriesExamples(row, Groups.group[RowKey(row)])
        /\ \A row \in Range(out.q_entities) :
              /\ CarriesReasons(row)
              /\ CarriesExamples(row, MentionsOfEntity(Get(row, "canonical_id")))

(***************************************************************************)
(* Further properties of the identity registry (under RegistrySpec).       *)
(***************************************************************************)
\* C23 (as stated): after a call get_or_create_canonical(type, label, primary_name)
\* with a non-empty primary_name, whether the call created the entity or found it,
\* aliases holds the pair (returned canonical_id, primary_name).
C23_PrimaryNameIsAlias ==
    (last_call.op = "get_or_create_canonical" /\ Truthy(last_call.primary_name))
        => [canonical_id |-> last_call.ret, alias |-> last_call.primary_name.v] \in aliases

(***************************************************************************)
(* Further properties of the linker (under LinkSpec).                      *)
(***************************************************************************)
\* the external ids a row of linked.entities.jsonl lists, as registry rows
ListedExternalIds(row) ==
    {[canonical_id |-> Get(row, "canonical_id").v, source |-> Get(x, "source").v,
      external_id |-> Get(x, "id").v] : x \in Range(Get(row, "external_ids").v)}

\* C28 (as stated): after a run of link_entities every external id that a row of
\* linked.entities.jsonl lists for its canonical_id is a row of the registry's
\* external_ids table, and no two rows with different canonical_ids list the same
\* (source, id).
C28_ListedExternalIdsBacked ==
    link_log # <<>> =>
        /\ \A row \in Range(LinkedRows) : ListedExternalIds(row) \subseteq external_ids
        /\ \A r1, r2 \in Range(LinkedRows) :
              \A x1 \in ListedExternalIds(r1), x2 \in ListedExternalIds(r2) :
                  (x1.source = x2.source /\ x1.external_id = x2.external_id)
                      => x1.canonical_id = x2.canonical_id

(***************************************************************************)
(* Further properties of the coreference resolver (under CorefSpec).       *)
(***************************************************************************)
\* C26: the antecedent of a pronoun at position i is a mention at an earlier position,
\* at most max_sent_back sentences away, and one of the max_mentions_back nearest
\* earlier mentions within that sentence distance (mentions outside it do not count
\* against max_mentions_back); a pronoun is never its own antecedent.
C26_AntecedentInWindow ==
    \A i \in Linked :
        /\ Antecedent(i) < i
        /\ Abs(SentId(Resolved[i]) - SentId(Resolved[Antecedent(i)])) <= coref_call.max_sent_back
        /\ Cardinality({k \in (Antecedent(i) + 1)..(i - 1) :
                           Abs(SentId(Resolved[i]) - SentId(Resolved[k]))
                               <= coref_call.max_sent_back})
              < coref_call.max_mentions_back
        /\ Get(Resolved[i], "antecedent_mention_id") # Get(Resolved[i], "mention_id")

\* a pronoun resolved, with max_mentions_back = 1, to a mention that is not the one
\* just before it: the mentions between the two are outside the sentence distance
C26_Witness ==
    /\ coref_call.op # "none"
    /\ coref_call.max_mentions_back = 1
    /\ \E i \in Linked :
          /\ Antecedent(i) < i - 1
          /\ \A k \in (Antecedent(i) + 1)..(i - 1) :
                Abs(SentId(Resolved[i]) - SentId(Resolved[k])) > coref_call.max_sent_back

\* the earlier mention at j agrees with the pronoun at i in gender and number
Agrees(i, j) ==
    /\ Form(i) \in {"he", "him"} => Gender(j) \in {"masc", "unknown"}
    /\ Form(i) \in {"she", "her"} => Gender(j) \in {"fem", "unknown"}
    /\ NumberAgrees(i, j)
\* the record at i is unresolved
IsUnresolved(i) ==
    /\ Get(Resolved[i], "antecedent_mention_id") = None
    /\ Get(Resolved[i], "coref_rule") = JS("unresolved")
    /\ Get(Resolved[i], "coref_conf") = JF(0)

EndsOf(row) == {RowKey(row)[1], RowKey(row)[3]}

\* C29 (as stated): the subject and the object of every relation of facts.relations
\* have a record in facts.entities of the same run and none in quarantine/entities.
C29_FactsReferToPromotedEntities ==
    runs > 0 =>
        \A row \in Range(out.facts_relations) :
            /\ EndsOf(row) \subseteq EntityIdsIn(out.facts_entities)
            /\ EndsOf(row) \cap EntityIdsIn(out.q_entities) = {}

\* the permutations of 1..n, and the lines of a file in the order p
LineOrders(n) == {p \in [1..n -> 1..n] : Range(p) = 1..n}
Permuted(xs, p) == [i \in 1..Len(xs) |-> xs[p[i]]]
\* the four files promote() writes for the inputs of the last run with their lines
\* reordered
FilesPermuted(pe, pr, pl) ==
    Files(promote(Permuted(ent_mentions, pe), Permuted(rel_mentions, pr),
                  Permuted(linked, pl), SchemaDoc, None, JI(min_ev), 0))

\* C30 (as stated): promote() writes the same four files for every permutation of
\* the lines of mentions.entities, mentions.relations and linked.entities.
C30_OrderOfLinesIrrelevant ==
    runs > 0 =>
        \A pe \in LineOrders(Len(ent_mentions)), pr \in LineOrders(Len(rel_mentions)),
           pl \in LineOrders(Len(linked)) :
            FilesPermuted(pe, pr, pl) = Files(out)

(***************************************************************************)
(* Properties of the entity and label gates (under GateSpec).              *)
(***************************************************************************)
\* the linked table of the run, the declared types, the key fields of a type
LinkedTable == CanonIdx(linked)
SchemaEntities == Get(SchemaDoc, "entities")
KeyFieldsOf(ce) == StrsOf(GetD(SchemaEntities.v[Get(ce, "type").v], "key", JL(<<>>)).v)
\* the type of the entity is not declared by the schema
UnknownType(ce) == ~KnownType(Get(ce, "type"), SchemaEntities)
\* the key map of the entity lacks a declared key field (a field whose value is null
\* or empty counts as lacking)
LacksKeyField(ce) ==
    /\ ~UnknownType(ce)
    /\ \E f \in KeyFieldsOf(ce) :
          \/ ~Has(Or(Get(ce, "key"), JD(<<>>)), f)
          \/ Get(Get(ce, "key"), f) \in {None, JS("")}
\* the row has a reason of the form missing_keys:<fields>
HasMissingKeysReason(row) ==
    /\ Has(row, "reasons")
    /\ \E r \in Range(Get(row, "reasons").v) : SubSeq(r.v, 1, 13) = "missing_keys:"

\* C24 (as stated): an evaluated canonical entity has a reason missing_keys:<fields>
\* exactly when its key map lacks a key field that the schema declares for its type
\* or its type is unknown to the schema; an entity with such a reason is in
\* quarantine/entities and not in facts.entities.
C24_MissingKeysReason ==
    runs > 0 =>
        /\ \A row \in Range(out.facts_entities) \cup Range(out.q_entities) :
              Get(row, "canonical_id") \in DOMAIN LinkedTable
              => (HasMissingKeysReason(row)
                    <=> (\/ LacksKeyField(LinkedTable[Get(row, "canonical_id")])
                         \/ UnknownType(LinkedTable[Get(row, "canonical_id")])))
        /\ \A row \in Range(out.facts_entities) : ~HasMissingKeysReason(row)


SchemaRelations == Get(SchemaDoc, "relations")
\* the labels of an end of a relation and the declared domain and range of its predicate
LabelsOf(cid) == Range(Get(LinkedTable[cid], "labels").v)
DomainOf(row) == Get(SchemaRelations.v[Get(row, "predicate").v], "domain").v
RangeOf(row)  == Get(SchemaRelations.v[Get(row, "predicate").v], "range").v
\* a rule of ["*"] matches any label set; otherwise one shared label suffices
Overlaps(labels, rule) == rule = <<JS("*")>> \/ labels \cap Range(rule) # {}
\* the relation rows whose predicate is declared and whose ends are both linked
GatedRows(rows) ==
    {row \in Range(rows) :
        /\ Has(SchemaRelations, Get(row, "predicate").v)
        /\ EndsOf(row) \subseteq DOMAIN LinkedTable}
Mismatch(row) ==
    \/ ~Overlaps(LabelsOf(RowKey(row)[1]), DomainOf(row))
    \/ ~Overlaps(LabelsOf(RowKey(row)[3]), RangeOf(row))

\* C25: for a relation group whose predicate is in the schema and whose subject and
\* object are both in the linked table, the quarantine record lists
\* domain_range_mismatch exactly when the labels of the subject share no element with
\* the domain of the predicate or the labels of the object share none with its range,
\* where a rule of ["*"] matches any label set and one shared label suffices; no
\* promoted relation has such a mismatch.
C25_DomainRangeGate ==
    runs > 0 =>
        /\ \A row \in GatedRows(out.q_relations) :
              JS("domain_range_mismatch") \in Range(ReasonsOf(row)) <=> Mismatch(row)
        /\ \A row \in GatedRows(out.facts_relations) : ~Mismatch(row)
\* a run that promoted a relation whose subject has a label outside the domain and one
\* inside it, and quarantined a relation under a domain of ["*"] for its range
C25_Witness ==
    /\ runs > 0
    /\ \E row \in GatedRows(out.facts_relations) :
          /\ DomainOf(row) # <<JS("*")>>
          /\ ~(LabelsOf(RowKey(row)[1]) \subseteq Range(DomainOf(row)))
    /\ \E row \in GatedRows(out.q_relations) :
          DomainOf(row) = <<JS("*")>> /\ Mismatch(row)

(***************************************************************************)
(* Properties of the command-line entry points (under CliSpec).            *)
(***************************************************************************)
\* the last invocation was given its arguments
ArgsComplete ==
    IF cli_last.cmd = "promote" THEN ParsesPromote(cli_last.args)
    ELSE ParsesLink(cli_last.args)
\* the schema file is unreadable, or a required input file or directory is missing
StructuralFailure ==
    IF cli_last.cmd = "promote"
    THEN \/ cli_fs.schema # "ok"
         \/ "absent" \in {cli_fs.ents, cli_fs.rels, cli_fs.linked}
    ELSE cli_fs.input_dir = "absent"
\* everything the command reads is present and well-formed
InputsFine ==
    IF cli_last.cmd = "promote"
    THEN cli_fs.schema = "ok" /\ ~PromoteRaises(cli_fs)
    ELSE ~LinkRaises(cli_fs)

\* C22 (as stated): an invocation of promote or link with a structural failure (the
\* schema file unreadable, a required input file or directory missing) ends with exit
\* code 2, exit code 1 is not the result of a structural failure, and an invocation
\* that succeeds ends with 0.
C22_StructuralFailureExits2 ==
    (cli_last # None /\ ArgsComplete) =>
        /\ StructuralFailure => cli_last.code = 2
        /\ cli_last.code = 1 => ~StructuralFailure
        /\ InputsFine => cli_last.code = 0

=============================================================================
